---- MODULE Spec2Model ----
(***************************************************************************)
(* Fixture reconciliation pipeline of RugbyNow (scripts/sync-flashscore.ts) *)
(* as a state machine.  Text is a sequence of one-character strings; a     *)
(* character outside ASCII is a named atom ("U0301" is the combining acute *)
(* accent, "U2019" the typographic apostrophe, "e_acute" the letter e with *)
(* an acute accent, "U2013" the en dash).                                  *)
(***************************************************************************)
EXTENDS Integers, Sequences, FiniteSets, TLC

\* null (no score, no minute, no team id) is -1: parsed scores, minutes and
\* team ids are never negative
null == -1

(***************************************************************************)
(* Text primitives (the JavaScript String and RegExp operations used).     *)
(***************************************************************************)
LowerLetters == <<"a","b","c","d","e","f","g","h","i","j","k","l","m",
                  "n","o","p","q","r","s","t","u","v","w","x","y","z">>
UpperLetters == <<"A","B","C","D","E","F","G","H","I","J","K","L","M",
                  "N","O","P","Q","R","S","T","U","V","W","X","Y","Z">>
Digits == <<"0","1","2","3","4","5","6","7","8","9">>

Range(f) == {f[i] : i \in DOMAIN f}

\* F applied to the value of x (x is evaluated once, before F is)
Eval(F(_), x) == CHOOSE r \in {F(v) : v \in {x}} : TRUE

IndexIn(c, seq) == CHOOSE i \in DOMAIN seq : seq[i] = c

\* String.prototype.toUpperCase, one character
UpperChar(c) ==
  IF c \in Range(LowerLetters) THEN UpperLetters[IndexIn(c, LowerLetters)]
  ELSE IF c = "e_acute" THEN "E_acute"
  ELSE IF c = "c_cedilla" THEN "C_cedilla"
  ELSE c

\* String.prototype.toLowerCase, one character
LowerChar(c) ==
  IF c \in Range(UpperLetters) THEN LowerLetters[IndexIn(c, UpperLetters)]
  ELSE IF c = "E_acute" THEN "e_acute"
  ELSE IF c = "C_cedilla" THEN "c_cedilla"
  ELSE c

toUpperCase(s) == LET F(v) == [i \in DOMAIN v |-> UpperChar(v[i])] IN Eval(F, s)
toLowerCase(s) == LET F(v) == [i \in DOMAIN v |-> LowerChar(v[i])] IN Eval(F, s)

\* the class \s of a JavaScript regular expression (and of trim)
IsSpace(c) == c \in {" ", "TAB", "U00A0"}
\* the class \d
IsDigit(c) == c \in Range(Digits)
\* the class \w, which decides the word boundary \b
IsWord(c) == c \in Range(LowerLetters) \cup Range(UpperLetters) \cup Range(Digits) \cup {"_"}

RECURSIVE TrimStart(_)
TrimStart(s) ==
  LET F(v) == IF v # <<>> /\ IsSpace(Head(v)) THEN TrimStart(Tail(v)) ELSE v
  IN Eval(F, s)

RECURSIVE TrimEnd(_)
TrimEnd(s) ==
  LET F(v) == IF v # <<>> /\ IsSpace(v[Len(v)]) THEN TrimEnd(SubSeq(v, 1, Len(v) - 1)) ELSE v
  IN Eval(F, s)

\* String.prototype.trim
trim(s) == TrimEnd(TrimStart(s))

\* pat occurs in s at position i
MatchAt(s, pat, i) ==
  /\ i >= 1
  /\ i + Len(pat) - 1 <= Len(s)
  /\ \A k \in 1..Len(pat) : s[i + k - 1] = pat[k]

\* String.prototype.includes, and RegExp.test of a literal
includes(s, pat) ==
  \E v \in {s}, p \in {pat} : \E i \in 1..(Len(v) + 1) : MatchAt(v, p, i)

\* Number.parseInt(t, 10) of a non-empty run of decimal digits
RECURSIVE parseInt(_)
parseInt(t) ==
  LET F(v) == IF v = <<>> THEN 0
              ELSE 10 * parseInt(SubSeq(v, 1, Len(v) - 1)) + (IndexIn(v[Len(v)], Digits) - 1)
  IN Eval(F, t)

\* /^\d+$/.test(t)
AllDigits(t) == \E v \in {t} : v # <<>> /\ \A i \in DOMAIN v : IsDigit(v[i])

\* String.prototype.replace(from, to) with a one-character string pattern:
\* only the first occurrence is replaced
ReplaceFirst(s, from, to) ==
  LET F(v) ==
        IF \E i \in DOMAIN v : v[i] = from
        THEN LET i == CHOOSE j \in DOMAIN v : v[j] = from /\ \A k \in 1..(j - 1) : v[k] # from
             IN [k \in DOMAIN v |-> IF k = i THEN to ELSE v[k]]
        ELSE v
  IN Eval(F, s)

(***************************************************************************)
(* norm: the comparison key of a team name.                                *)
(***************************************************************************)
\* String.prototype.normalize("NFKD"), one character
NFKDChar(c) ==
  IF c = "e_acute" THEN <<"e", "U0301">>
  ELSE IF c = "E_acute" THEN <<"E", "U0301">>
  ELSE IF c = "c_cedilla" THEN <<"c", "U0327">>
  ELSE IF c = "C_cedilla" THEN <<"C", "U0327">>
  ELSE IF c = "U00A0" THEN <<" ">>
  ELSE IF c = "U2122" THEN <<"T", "M">>
  ELSE <<c>>

RECURSIVE NFKD(_)
NFKD(s) ==
  LET F(v) == IF v = <<>> THEN <<>> ELSE NFKDChar(Head(v)) \o NFKD(Tail(v))
  IN Eval(F, s)

\* the range U+0300..U+036F of combining marks
IsCombining(c) == c \in {"U0301", "U0327"}

RECURSIVE StripCombining(_)
StripCombining(s) ==
  LET F(v) == IF v = <<>> THEN <<>>
              ELSE IF IsCombining(Head(v)) THEN StripCombining(Tail(v))
              ELSE <<Head(v)>> \o StripCombining(Tail(v))
  IN Eval(F, s)

\* .replace(/U+2019/g, "'")
FixApostrophe(s) ==
  LET F(v) == [i \in DOMAIN v |-> IF v[i] = "U2019" THEN "'" ELSE v[i]]
  IN Eval(F, s)

\* .replace(/\s+/g, " ")
RECURSIVE CollapseSpaces(_)
CollapseSpaces(s) ==
  LET F(v) == IF v = <<>> THEN <<>>
              ELSE IF IsSpace(Head(v))
                   THEN <<" ">> \o CollapseSpaces(TrimStart(v))
                   ELSE <<Head(v)>> \o CollapseSpaces(Tail(v))
  IN Eval(F, s)

norm(s) == trim(CollapseSpaces(FixApostrophe(StripCombining(NFKD(toLowerCase(s))))))

(***************************************************************************)
(* parseScore and detectStatusAndMinute.                                   *)
(***************************************************************************)
parseScore(x) ==
  LET F(t) == IF t = <<"-">> \/ t = <<>> THEN null
              ELSE IF ~AllDigits(t) THEN null
              ELSE parseInt(t)
  IN Eval(F, ReplaceFirst(trim(x), "U2013", "-"))

\* a word boundary \b lies just before position i of s (i in 1..Len(s)+1)
WordBoundary(s, i) ==
  LET before == i > 1 /\ IsWord(s[i - 1])
      after == i <= Len(s) /\ IsWord(s[i])
  IN before # after

\* /\b(\d{1,3})\s*'\b/ matches s at position i with k digits and w spaces
MinuteMatchAt(s, i, k, w) ==
  /\ i + k + w <= Len(s)
  /\ WordBoundary(s, i)
  /\ \A j \in i..(i + k - 1) : IsDigit(s[j])
  /\ \A j \in (i + k)..(i + k + w - 1) : IsSpace(s[j])
  /\ s[i + k + w] = "'"
  /\ WordBoundary(s, i + k + w + 1)

MinuteMatches(s) ==
  LET F(v) == {m \in (1..Len(v)) \X (1..3) \X (0..Len(v)) : MinuteMatchAt(v, m[1], m[2], m[3])}
  IN Eval(F, s)

\* s.match(/\b(\d{1,3})\s*'\b/): the capture group of the leftmost match
\* (<<>> when there is no match; a capture is never empty)
MinuteCapture(s) ==
  LET F(found) ==
        IF found = {} THEN <<>>
        ELSE LET m == CHOOSE x \in found : \A y \in found : x[1] <= y[1]
             IN SubSeq(s, m[1], m[1] + m[2] - 1)
  IN Eval(F, MinuteMatches(s))

detectStatusAndMinute(raw) ==
  LET F(s) ==
        IF \/ includes(s, <<"P","O","S","T","P">>)
           \/ includes(s, <<"C","A","N","C">>)
           \/ includes(s, <<"C","A","N","C","E","L">>)
           \/ includes(s, <<"A","B","A","N","D">>)
           \/ includes(s, <<"A","B","D">>)
        THEN [status |-> "NS", minute |-> null]
        ELSE IF \/ includes(s, <<"F","T">>)
                \/ includes(s, <<"F","I","N","A","L">>)
                \/ includes(s, <<"A","E","T">>)
        THEN [status |-> "FT", minute |-> null]
        ELSE IF includes(s, <<"H","T">>) \/ includes(s, <<"L","I","V","E">>)
        THEN [status |-> "LIVE", minute |-> null]
        ELSE IF MinuteCapture(s) # <<>>
        THEN [status |-> "LIVE", minute |-> parseInt(MinuteCapture(s))]
        ELSE [status |-> "NS", minute |-> null]
  IN Eval(F, trim(toUpperCase(raw)))

(***************************************************************************)
(* Input URLs and the competition slug.  A URL is its path (the sequence   *)
(* of path segments, a trailing slash leaving no segment) together with    *)
(* whether it carries a query string or a fragment.                        *)
(***************************************************************************)
rugby_union == <<"r","u","g","b","y","-","u","n","i","o","n">>
top_14 == <<"t","o","p","-","1","4">>
serie_a_elite == <<"s","e","r","i","e","-","a","-","e","l","i","t","e">>
six_nations == <<"s","i","x","-","n","a","t","i","o","n","s">>
super_rugby_americas == <<"s","u","p","e","r","-","r","u","g","b","y","-","a","m","e","r","i","c","a","s">>
fr_top14 == <<"f","r","-","t","o","p","1","4">>
it_serie_a_elite == <<"i","t","-","s","e","r","i","e","-","a","-","e","l","i","t","e">>
int_six_nations == <<"i","n","t","-","s","i","x","-","n","a","t","i","o","n","s">>
sra == <<"s","r","a">>
england == <<"e","n","g","l","a","n","d">>
argentina == <<"a","r","g","e","n","t","i","n","a">>
premier == <<"p","r","e","m","i","e","r">>
premiership == <<"p","r","e","m","i","e","r","s","h","i","p">>
urba == <<"u","r","b","a">>
top == <<"t","o","p">>
en_premiership == <<"e","n","-","p","r","e","m","i","e","r","s","h","i","p">>
ar_urba_top14 == <<"a","r","-","u","r","b","a","-","t","o","p","1","4">>
fixtures == <<"f","i","x","t","u","r","e","s">>
francia == <<"f","r","a","n","c","i","a">>
results == <<"r","e","s","u","l","t","s">>
pro_d2 == <<"p","r","o","-","d","2">>

\* no slug: the JavaScript null / empty string of compSlug
NoSlug == <<>>

\* normalizeFlashUrl: the query string and the fragment are dropped, and so
\* is a last path segment "fixtures"
normalizeFlashUrl(url) ==
  LET F(path) == [path |-> IF path # <<>> /\ path[Len(path)] = fixtures
                           THEN SubSeq(path, 1, Len(path) - 1) ELSE path,
                  search |-> FALSE, hash |-> FALSE]
  IN Eval(F, url.path)

competitionSlugFromUrl(url) ==
  LET F(parts) ==
        IF Len(parts) < 3 THEN NoSlug
        ELSE IF parts[1] # rugby_union THEN NoSlug
        ELSE LET regionOrCountry == parts[2]
                 compSlug == parts[3]
             IN IF compSlug = top_14 THEN fr_top14
                ELSE IF compSlug = serie_a_elite THEN it_serie_a_elite
                ELSE IF compSlug = six_nations THEN int_six_nations
                ELSE IF compSlug = super_rugby_americas THEN sra
                ELSE IF /\ regionOrCountry = england
                        /\ (includes(compSlug, premier) \/ includes(compSlug, premiership))
                     THEN en_premiership
                ELSE IF /\ regionOrCountry = argentina
                        /\ (includes(compSlug, urba) \/ includes(compSlug, top))
                     THEN ar_urba_top14
                ELSE NoSlug
  IN Eval(F, normalizeFlashUrl(url).path)

(***************************************************************************)
(* seasonSortKey and the choice of the latest season.                      *)
(***************************************************************************)
\* /\b(\d{4})\s*\/\s*(\d{2,4})\b/ matches s at position i, with w1 and w2
\* spaces around the slash and k digits after it
RangeMatchAt(s, i, w1, w2, k) ==
  /\ i + 3 + w1 + 1 + w2 + k <= Len(s)
  /\ WordBoundary(s, i)
  /\ \A j \in i..(i + 3) : IsDigit(s[j])
  /\ \A j \in (i + 4)..(i + 3 + w1) : IsSpace(s[j])
  /\ s[i + 4 + w1] = "/"
  /\ \A j \in (i + 5 + w1)..(i + 4 + w1 + w2) : IsSpace(s[j])
  /\ \A j \in (i + 5 + w1 + w2)..(i + 4 + w1 + w2 + k) : IsDigit(s[j])
  /\ WordBoundary(s, i + 5 + w1 + w2 + k)

RangeMatches(s) ==
  LET F(v) == {m \in (1..Len(v)) \X (0..Len(v)) \X (0..Len(v)) \X (2..4) :
                 RangeMatchAt(v, m[1], m[2], m[3], m[4])}
  IN Eval(F, s)

\* /\b(19\d{2}|20\d{2})\b/ matches s at position i
YearMatchAt(s, i) ==
  /\ i + 3 <= Len(s)
  /\ WordBoundary(s, i)
  /\ \/ s[i] = "1" /\ s[i + 1] = "9"
     \/ s[i] = "2" /\ s[i + 1] = "0"
  /\ IsDigit(s[i + 2]) /\ IsDigit(s[i + 3])
  /\ WordBoundary(s, i + 4)

Max(a, b) == IF a >= b THEN a ELSE b

\* the key of a name in which the range pattern matches (leftmost match m)
RangeKey(s, m) ==
  LET first == SubSeq(s, m[1], m[1] + 3)
      bRaw == SubSeq(s, m[1] + 5 + m[2] + m[3], m[1] + 4 + m[2] + m[3] + m[4])
      a == parseInt(first)
      b == IF Len(bRaw) = 2 THEN parseInt(SubSeq(first, 1, 2) \o bRaw)
           ELSE parseInt(bRaw)
  IN Max(a, b)

seasonSortKey(name) ==
  LET G(s, found) ==
        IF found # {}
        THEN RangeKey(s, CHOOSE x \in found : \A y \in found : x[1] <= y[1])
        ELSE IF \E i \in 1..Len(s) : YearMatchAt(s, i)
        THEN LET i == CHOOSE j \in 1..Len(s) :
                        YearMatchAt(s, j) /\ \A k \in 1..(j - 1) : ~YearMatchAt(s, k)
             IN parseInt(SubSeq(s, i, i + 3))
        ELSE 0
      F(s) == LET H(found) == G(s, found) IN Eval(H, RangeMatches(s))
  IN Eval(F, trim(name))

(***************************************************************************)
(* The team table, the alias map and resolveTeamId.                        *)
(***************************************************************************)
\* rows of the teams table, in the order the database returns them
TeamsTable ==
  << [id |-> 51, name |-> <<"B","a","y","o","n","n","e">>],
     [id |-> 46, name |-> <<"T","o","u","l","o","n">>],
     [id |-> 45, name |-> <<"S","t","a","d","e"," ","F","r","a","n","c_cedilla","a","i","s">>] >>

\* the aliases getTeamsMap adds after the rows of the teams table
AliasTable ==
  << <<<<"E","m","i","l","i","a">>, 33>>,
     <<<<"V","a","l","o","r","u","g","b","y">>, 33>>,
     <<<<"V","a","l","o","r","u","g","b","y"," ","E","m","i","l","i","a">>, 33>>,
     <<<<"P","e","t","r","a","r","c","a"," ","P","a","d","o","v","a">>, 31>>,
     <<<<"R","u","g","b","y"," ","L","y","o","n","s">>, 38>>,
     <<<<"L","y","o","n","s">>, 38>>,
     <<<<"A","v","i","r","o","n"," ","B","a","y","o","n","n","a","i","s">>, 51>>,
     <<<<"B","a","y","o","n","n","e">>, 51>>,
     <<<<"R","C"," ","T","o","u","l","o","n","n","a","i","s">>, 46>>,
     <<<<"T","o","u","l","o","n">>, 46>>,
     <<<<"S","t","a","d","e"," ","F","r","a","n","c","a","i","s"," ","P","a","r","i","s">>, 45>>,
     <<<<"S","t","a","d","e"," ","F","r","a","n","c_cedilla","a","i","s"," ","P","a","r","i","s">>, 45>>,
     <<<<"S","t","a","d","e"," ","F","r","a","n","c","a","i","s">>, 45>>,
     <<<<"S","t","a","d","e"," ","R","o","c","h","e","l","a","i","s">>, 50>>,
     <<<<"S","t","a","d","e"," ","T","o","u","l","o","u","s","a","i","n">>, 41>>,
     <<<<"C","o","b","r","a","s">>, 9>>,
     <<<<"C","o","b","r","a","s"," ","B","r","a","s","i","l">>, 9>>,
     <<<<"C","a","p","i","b","a","r","a","s">>, 14>>,
     <<<<"C","a","p","i","b","a","r","a","s"," ","X","V">>, 14>>,
     <<<<"P","a","m","p","a","s"," ","X","V">>, 12>>,
     <<<<"P","a","m","p","a","s">>, 12>> >>

\* Map.prototype.get on a map given as its sequence of set(key, value) calls:
\* the value of the last call with that key, null when there is none
MapGet(map, key) ==
  LET F(m) == LET G(k) ==
                    IF \E i \in DOMAIN m : m[i][1] = k
                    THEN m[CHOOSE j \in DOMAIN m :
                             m[j][1] = k /\ \A i \in (j + 1)..Len(m) : m[i][1] # k][2]
                    ELSE null
              IN Eval(G, key)
  IN Eval(F, map)

\* getTeamsMap without the aliases
teamsMapNoAliases ==
  [i \in DOMAIN TeamsTable |-> <<norm(TeamsTable[i].name), TeamsTable[i].id>>]

\* getTeamsMap: teamsMap (norm(name) -> id, then the aliases) and teamNamesNorm
teamsMap ==
  [i \in DOMAIN TeamsTable |-> <<norm(TeamsTable[i].name), TeamsTable[i].id>>]
  \o [i \in DOMAIN AliasTable |-> <<norm(AliasTable[i][1]), AliasTable[i][2]>>]

teamNamesNorm == [i \in DOMAIN TeamsTable |-> norm(TeamsTable[i].name)]

\* n.split(" ").filter(Boolean)
RECURSIVE Tokens(_)
Tokens(n) ==
  LET F(v) ==
        IF v = <<>> THEN <<>>
        ELSE IF Head(v) = " " THEN Tokens(Tail(v))
        ELSE LET G(stop) == <<SubSeq(v, 1, stop - 1)>> \o Tokens(SubSeq(v, stop, Len(v)))
             IN Eval(G, IF \E i \in DOMAIN v : v[i] = " "
                        THEN (CHOOSE i \in DOMAIN v :
                                v[i] = " " /\ \A k \in 1..(i - 1) : v[k] # " ")
                        ELSE Len(v) + 1)
  IN Eval(F, n)

\* a variant of the score that counts the tokens the two names share
FuzzyScoreSharedTokens(n, candidate) ==
  LET F(tokens) ==
        (IF includes(candidate, n) \/ includes(n, candidate) THEN 2 ELSE 0)
        + Cardinality({i \in DOMAIN tokens :
                         Len(tokens[i]) >= 3 /\ tokens[i] \in Range(Tokens(candidate))})
  IN Eval(F, Tokens(n))

\* the score resolveTeamId gives a canonical name for the normalized raw name n
FuzzyScore(n, candidate) ==
  LET F(tokens) ==
        (IF includes(candidate, n) \/ includes(n, candidate) THEN 2 ELSE 0)
        + Cardinality({i \in DOMAIN tokens :
                         Len(tokens[i]) >= 3 /\ includes(candidate, tokens[i])})
  IN Eval(F, Tokens(n))

\* the loop of resolveTeamId over the first k canonical names: <<bestName index, bestScore>>
RECURSIVE FuzzyBest(_, _, _)
FuzzyBest(n, names, k) ==
  IF k = 0 THEN <<0, 0>>
  ELSE LET F(prev) == LET G(score) == IF score > prev[2] THEN <<k, score>> ELSE prev
                      IN Eval(G, FuzzyScore(n, names[k]))
       IN Eval(F, FuzzyBest(n, names, k - 1))

resolveTeamId(rawName, tmap, names) ==
  LET F(n) ==
        IF n = <<>> THEN null
        ELSE LET G(direct) ==
                   IF direct # null /\ direct # 0 THEN direct
                   ELSE LET H(best) == IF best[1] = 0 \/ names[best[1]] = <<>> \/ best[2] < 2
                                       THEN null
                                       ELSE MapGet(tmap, names[best[1]])
                        IN Eval(H, FuzzyBest(n, names, Len(names)))
             IN Eval(G, MapGet(tmap, n))
  IN Eval(F, norm(rawName))

\* the aliases as getTeamsMap sets them
AliasMap == [i \in DOMAIN AliasTable |-> <<norm(AliasTable[i][1]), AliasTable[i][2]>>]

\* getTeamsMap on the rows of the teams table
getTeamsMap(data) ==
  LET F(names) == [teamsMap |-> [i \in DOMAIN data |-> <<names[i], data[i].id>>] \o AliasMap,
                   teamNamesNorm |-> names]
  IN Eval(F, [i \in DOMAIN data |-> norm(data[i].name)])

(***************************************************************************)
(* The database: competitions, seasons and the matches table.  Time is     *)
(* counted in half days (now), a match_date in days.                       *)
(***************************************************************************)
VARIABLES
  matches,       \* the matches table: match id -> row
  now,           \* the moment of the runs, in half days
  pc,            \* where main() is: "idle", "inputs", "rows", "exit0", "exit1"
  LIVE_ONLY,     \* the environment variable LIVE_ONLY of the run
  inputsRead,    \* how many input items the loop of main() has taken
  candidates,    \* the rows getCandidates returned for the current input
  rowsRead,      \* how many rows of the current page have been read
  seen,          \* the Set seen of dedupeScrapedRows for the current page
  updatedIds,    \* the Set updatedIds of the current input
  updatedHere,   \* the counter updatedHere of the current input
  totalUpdates,  \* the counter totalUpdates of the run
  written,       \* history: the match ids an update was applied to in this run
  last,          \* history: what the last loop iteration did
  site,          \* the rows the source page shows (runs on an unchanged page)
  runsDone,      \* how many runs have been made on that page
  afterFirst,    \* history: the matches table as the first of them left it
  arg,           \* the text handed to detectStatusAndMinute (parser runs)
  ret,           \* what detectStatusAndMinute returned for arg
  standings,     \* the standings table: season id -> its rows
  sync           \* the standings sync: where its main() is and its locals

vars == <<matches, now, pc, LIVE_ONLY, inputsRead, candidates, rowsRead, seen,
          updatedIds, updatedHere, totalUpdates, written, last, site, runsDone,
          afterFirst, arg, ret, standings, sync>>

\* the variables of a run of the reconciler
running == <<matches, now, pc, LIVE_ONLY, inputsRead, candidates, rowsRead, seen,
             updatedIds, updatedHere, totalUpdates, written, last, site, runsDone,
             afterFirst>>

CompetitionsTable == << [id |-> 1, slug |-> fr_top14] >>

SeasonsTable ==
  << [id |-> 1, competition_id |-> 1, name |-> <<"2","0","2","4","/","2","5">>],
     [id |-> 2, competition_id |-> 1, name |-> <<"2","0","2","5","/","2","6">>] >>

\* the day the model starts on; now is 2 * Today at midnight
Today == 10

\* the fixtures the backfill import created (columns the pipeline never writes)
Fixtures ==
  << [id |-> 1, season_id |-> 2, match_date |-> Today, home_team_id |-> 51, away_team_id |-> 46],
     [id |-> 2, season_id |-> 2, match_date |-> Today + 1, home_team_id |-> 51, away_team_id |-> 46],
     [id |-> 3, season_id |-> 2, match_date |-> Today + 2, home_team_id |-> 46, away_team_id |-> 51],
     [id |-> 4, season_id |-> 2, match_date |-> Today - 4, home_team_id |-> 51, away_team_id |-> 46],
     [id |-> 5, season_id |-> 1, match_date |-> Today, home_team_id |-> 51, away_team_id |-> 46],
     [id |-> 6, season_id |-> 2, match_date |-> Today, home_team_id |-> 45, away_team_id |-> 46] >>

MatchIds == {Fixtures[i].id : i \in DOMAIN Fixtures}

\* the stored live state a fixture can start the model with
InitialLiveStates ==
  { [status |-> "NS", minute |-> null, home_score |-> null, away_score |-> null],
    [status |-> "LIVE", minute |-> null, home_score |-> 10, away_score |-> 3],
    [status |-> "FT", minute |-> null, home_score |-> 24, away_score |-> 10] }

MatchRow(fixture, live, stamp) ==
  [id |-> fixture.id, season_id |-> fixture.season_id, match_date |-> fixture.match_date,
   home_team_id |-> fixture.home_team_id, away_team_id |-> fixture.away_team_id,
   kickoff_time |-> "15:00:00", round |-> fixture.id, venue |-> "Stade Jean Dauger",
   status |-> live.status, minute |-> live.minute,
   home_score |-> live.home_score, away_score |-> live.away_score,
   updated_at |-> stamp]

\* Array.prototype.sort with a comparator that subtracts keys, on a sequence
\* of <<key, element>> pairs: ascending by key, and stable
RECURSIVE StableSort(_)
StableSort(pairs) ==
  LET F(v) ==
        IF v = <<>> THEN <<>>
        ELSE LET G(rest) ==
                   LET x == v[Len(v)]
                       n == Cardinality({i \in DOMAIN rest : rest[i][1] <= x[1]})
                   IN SubSeq(rest, 1, n) \o <<x>> \o SubSeq(rest, n + 1, Len(rest))
             IN Eval(G, StableSort(SubSeq(v, 1, Len(v) - 1)))
  IN Eval(F, pairs)

\* getLatestSeasonIdByCompSlug: 0 stands for the exception it throws
getLatestSeasonIdByCompSlug(compSlug) ==
  LET comps == SelectSeq(CompetitionsTable, LAMBDA c : c.slug = compSlug)
  IN IF comps = <<>> THEN 0
     ELSE LET seasons == SelectSeq(SeasonsTable, LAMBDA x : x.competition_id = comps[1].id)
              keyed == [i \in DOMAIN seasons |->
                          <<0 - seasonSortKey(seasons[i].name), seasons[i]>>]
          IN IF seasons = <<>> THEN 0
             ELSE StableSort(keyed)[1][2].id

\* the ids of a table in the order the database returns its rows
RECURSIVE IdsInOrder(_)
IdsInOrder(ids) ==
  IF ids = {} THEN <<>>
  ELSE LET m == CHOOSE x \in ids : \A y \in ids : x <= y
       IN <<m>> \o IdsInOrder(ids \ {m})

\* getCandidates without .neq("status", "FT")
getCandidatesAnyStatus(seasonId, table, clock, liveOnly) ==
  LET today == clock \div 2
      hit(id) == /\ table[id].season_id = seasonId
                 /\ table[id].match_date >= today - 3
                 /\ table[id].match_date <= today + 7
                 /\ (liveOnly => table[id].status = "LIVE")
      ids == SelectSeq(IdsInOrder(DOMAIN table), hit)
  IN [i \in DOMAIN ids |->
        [id |-> ids[i], match_date |-> table[ids[i]].match_date,
         home_team_id |-> table[ids[i]].home_team_id,
         away_team_id |-> table[ids[i]].away_team_id]]

\* getCandidates without the bounds on match_date
getCandidatesNoWindow(seasonId, table, clock, liveOnly) ==
  LET hit(id) == /\ table[id].season_id = seasonId
                 /\ table[id].status # "FT"
                 /\ (liveOnly => table[id].status = "LIVE")
      ids == SelectSeq(IdsInOrder(DOMAIN table), hit)
  IN [i \in DOMAIN ids |->
        [id |-> ids[i], match_date |-> table[ids[i]].match_date,
         home_team_id |-> table[ids[i]].home_team_id,
         away_team_id |-> table[ids[i]].away_team_id]]

\* getCandidates: the rows of the season inside [today - 3, today + 7] that are
\* not FT (and are LIVE when LIVE_ONLY is set); of the selected columns, the
\* ones main() reads afterwards
getCandidates(seasonId, table, clock, liveOnly) ==
  LET today == clock \div 2
      isoFrom == today - 3
      isoTo == today + 7
      hit(id) == /\ table[id].season_id = seasonId
                 /\ table[id].match_date >= isoFrom
                 /\ table[id].match_date <= isoTo
                 /\ table[id].status # "FT"
                 /\ (liveOnly => table[id].status = "LIVE")
      ids == SelectSeq(IdsInOrder(DOMAIN table), hit)
  IN [i \in DOMAIN ids |->
        [id |-> ids[i], match_date |-> table[ids[i]].match_date,
         home_team_id |-> table[ids[i]].home_team_id,
         away_team_id |-> table[ids[i]].away_team_id]]

\* index.get(`${h}__${a}`) on the index main() builds from the candidates
IndexGet(cands, h, a) ==
  SelectSeq(cands, LAMBDA m : m.home_team_id = h /\ m.away_team_id = a)

Abs(x) == IF x < 0 THEN 0 - x ELSE x

\* dateDistanceDays, in half days
dateDistanceDays(isoDate, clock) == Abs(2 * isoDate - clock)

\* pickBestCandidate without the sort
pickFirstCandidate(possible, clock) == possible[1]

pickBestCandidate(possible, clock) ==
  LET keyed == [i \in DOMAIN possible |->
                  <<dateDistanceDays(possible[i].match_date, clock), possible[i]>>]
  IN StableSort(keyed)[1][2]

(***************************************************************************)
(* The source page and the input of a run.                                 *)
(***************************************************************************)
\* rows per scraped page, input items per run
MaxRows == 2
MaxInputs == 2

\* the rows a fixtures page of the source site can show (home and away text
\* are never empty: scrapeFixturesPage drops such rows)
ScrapedRowSet ==
  { [home |-> <<"A","v","i","r","o","n"," ","B","a","y","o","n","n","a","i","s">>,
     away |-> <<"R","C"," ","T","o","u","l","o","n","n","a","i","s">>,
     hs |-> <<"2","4">>, as |-> <<"1","0">>, statusOrTime |-> <<"F","T">>],
    [home |-> <<"A","v","i","r","o","n"," ","B","a","y","o","n","n","a","i","s">>,
     away |-> <<"R","C"," ","T","o","u","l","o","n","n","a","i","s">>,
     hs |-> <<"-">>, as |-> <<"1","4">>, statusOrTime |-> <<"H","T">>],
    [home |-> <<"A","v","i","r","o","n"," ","B","a","y","o","n","n","a","i","s">>,
     away |-> <<"R","C"," ","T","o","u","l","o","n","n","a","i","s">>,
     hs |-> <<"7">>, as |-> <<"3">>, statusOrTime |-> <<"5","2","'","2">>],
    [home |-> <<"A","v","i","r","o","n"," ","B","a","y","o","n","n","a","i","s">>,
     away |-> <<"R","C"," ","T","o","u","l","o","n","n","a","i","s">>,
     hs |-> <<"1","0">>, as |-> <<"3">>, statusOrTime |-> <<"P","o","s","t","p","o","n","e","d">>],
    [home |-> <<"A","v","i","r","o","n"," ","B","a","y","o","n","n","a","i","s">>,
     away |-> <<"R","C"," ","T","o","u","l","o","n","n","a","i","s">>,
     hs |-> <<"-">>, as |-> <<"-">>, statusOrTime |-> <<"5","2","'">>],
    [home |-> <<"R","C"," ","T","o","u","l","o","n","n","a","i","s">>,
     away |-> <<"A","v","i","r","o","n"," ","B","a","y","o","n","n","a","i","s">>,
     hs |-> <<"1","0">>, as |-> <<"3">>, statusOrTime |-> <<"F","T">>],
    [home |-> <<"B","a","y","o","n","n","e">>,
     away |-> <<"B","i","a","r","r","i","t","z">>,
     hs |-> <<>>, as |-> <<>>, statusOrTime |-> <<"1","5",":","0","0">>],
    [home |-> <<"a","v","i","r","o","n"," "," ","b","a","y","o","n","n","a","i","s">>,
     away |-> <<"R","C"," ","T","o","u","l","o","n","n","a","i","s">>,
     hs |-> <<"2","4">>, as |-> <<"1","0">>, statusOrTime |-> <<"F","T">>] }

Pages == UNION {[1..n -> ScrapedRowSet] : n \in 0..MaxRows}

\* the key dedupeScrapedRows gives a row
DedupeKey(r) ==
  norm(r.home) \o <<"|","|">> \o norm(r.away) \o <<"|","|">> \o r.hs
  \o <<"|","|">> \o r.as \o <<"|","|">> \o r.statusOrTime

DedupeKeyOf == [r \in ScrapedRowSet |-> DedupeKey(r)]

RECURSIVE dedupeScrapedRows(_)
dedupeScrapedRows(rows) ==
  LET F(v) ==
        IF v = <<>> THEN <<>>
        ELSE LET G(out) == IF \E i \in DOMAIN out : DedupeKeyOf[out[i]] = DedupeKeyOf[v[Len(v)]]
                           THEN out ELSE Append(out, v[Len(v)])
             IN Eval(G, dedupeScrapedRows(SubSeq(v, 1, Len(v) - 1)))
  IN Eval(F, rows)

\* the tokens FLASH_URLS can hold: "slug=url" or a plain url
InputTokens ==
  { [slug |-> <<" ">> \o fr_top14,
     url |-> [path |-> <<rugby_union, francia, top_14, fixtures>>, search |-> TRUE, hash |-> FALSE]],
    [slug |-> NoSlug,
     url |-> [path |-> <<rugby_union, francia, top_14>>, search |-> FALSE, hash |-> FALSE]],
    [slug |-> NoSlug,
     url |-> [path |-> <<rugby_union, francia, pro_d2>>, search |-> FALSE, hash |-> FALSE]],
    [slug |-> NoSlug,
     url |-> [path |-> <<rugby_union, england, six_nations>>, search |-> FALSE, hash |-> TRUE]] }

\* urlsFromEnv: one item per token, compSlug null (NoSlug) for a plain url
urlsFromEnv(tokens) ==
  [i \in DOMAIN tokens |-> [compSlug |-> trim(tokens[i].slug), url |-> tokens[i].url]]

\* item.compSlug?.trim() || competitionSlugFromUrl(item.url)
CompSlugOf(item) ==
  IF trim(item.compSlug) # NoSlug THEN trim(item.compSlug)
  ELSE competitionSlugFromUrl(item.url)

\* the items main() can find in its input, with the slug and the season
\* (0: the lookup throws) main() computes for each
InputItems == {urlsFromEnv(<<tok>>)[1] : tok \in InputTokens}
ItemSlug == [item \in InputItems |-> CompSlugOf(item)]
ItemSeason ==
  [item \in InputItems |->
     IF ItemSlug[item] = NoSlug THEN 0 ELSE getLatestSeasonIdByCompSlug(ItemSlug[item])]

\* resolveTeamId for the names the pages show
RawNames == {r.home : r \in ScrapedRowSet} \cup {r.away : r \in ScrapedRowSet}
\* a variant that hands a name it cannot resolve to the second team of the table
TeamIdOfGuessing ==
  [name \in RawNames |->
     LET F(id) == IF id = null THEN TeamsTable[2].id ELSE id
     IN Eval(F, resolveTeamId(name, teamsMap, teamNamesNorm))]

TeamIdOf == [name \in RawNames |-> resolveTeamId(name, teamsMap, teamNamesNorm)]

\* navigation attempts of gotoWithRetry
Tries == 3

\* gotoWithRetry on the outcomes of the successive page.goto calls: whether it
\* returned (ok) or threw, and the number of attempts made
gotoWithRetry(outcomes, tries) ==
  IF \E i \in 1..tries : outcomes[i]
  THEN [ok |-> TRUE,
        attempts |-> CHOOSE i \in 1..tries : outcomes[i] /\ \A k \in 1..(i - 1) : ~outcomes[k]]
  ELSE [ok |-> FALSE, attempts |-> tries]

(***************************************************************************)
(* main(): one run of the reconciler.  The loop over the input items and   *)
(* the loop over the rows of a page take one action per iteration; the     *)
(* items and the rows are read as the loops reach them.                    *)
(***************************************************************************)
NoLast == [kind |-> "none"]

\* the standings sync is not running and no standings are stored
SyncIdle == [pc |-> "idle"]
SyncNotRunning == standings = <<>> /\ sync = SyncIdle
NoRet == [status |-> "none", minute |-> null]

\* the moments a run can take place at
Clocks == {2 * Today + 1, 2 * Today + 2}

\* the patch without the clearing of the scores of an NS row
BuildPatchKeepScores(row, clock) ==
  LET hs == parseScore(row.hs)
      as == parseScore(row.as)
      sm == detectStatusAndMinute(row.statusOrTime)
  IN [status |-> sm.status, minute |-> sm.minute, updated_at |-> clock]
     @@ (IF hs # null THEN [home_score |-> hs] ELSE <<>>)
     @@ (IF as # null THEN [away_score |-> as] ELSE <<>>)

\* the patch with the minute set only when the status text holds one
BuildPatchKeepMinute(row, clock) ==
  LET hs == parseScore(row.hs)
      as == parseScore(row.as)
      sm == detectStatusAndMinute(row.statusOrTime)
      base == [status |-> sm.status, updated_at |-> clock]
              @@ (IF sm.minute # null THEN [minute |-> sm.minute] ELSE <<>>)
  IN IF sm.status = "NS"
     THEN base @@ [home_score |-> null, away_score |-> null]
     ELSE base @@ (IF hs # null THEN [home_score |-> hs] ELSE <<>>)
               @@ (IF as # null THEN [away_score |-> as] ELSE <<>>)

\* a variant that always puts both scores in the patch
BuildPatchAlwaysScores(row, clock) ==
  LET sm == detectStatusAndMinute(row.statusOrTime)
  IN [status |-> sm.status, minute |-> sm.minute, updated_at |-> clock,
      home_score |-> IF sm.status = "NS" THEN null ELSE parseScore(row.hs),
      away_score |-> IF sm.status = "NS" THEN null ELSE parseScore(row.as)]

\* the patch main() builds for a scraped row: status, minute and updated_at
\* always, the scores null when the status is NS and otherwise only the
\* scores that parse
BuildPatch(row, clock) ==
  LET hs == parseScore(row.hs)
      as == parseScore(row.as)
      sm == detectStatusAndMinute(row.statusOrTime)
      base == [status |-> sm.status, minute |-> sm.minute, updated_at |-> clock]
  IN IF sm.status = "NS"
     THEN base @@ [home_score |-> null, away_score |-> null]
     ELSE base @@ (IF hs # null THEN [home_score |-> hs] ELSE <<>>)
               @@ (IF as # null THEN [away_score |-> as] ELSE <<>>)

\* the patch of each row the pages show
PatchOf == [row \in ScrapedRowSet, clock \in Clocks |-> BuildPatch(row, clock)]

\* an update that leaves a column alone when the patch holds null for it
UpdateMatchSkipNull(table, id, patch) ==
  [m \in DOMAIN table |->
     IF table[m].id = id
     THEN [col \in DOMAIN table[m] |->
             IF col \in DOMAIN patch /\ (col = "status" \/ patch[col] # null)
             THEN patch[col] ELSE table[m][col]]
     ELSE table[m]]

\* a variant that writes as an upsert of a row built from the patch alone: the
\* columns the patch does not name fall back to their defaults
UpdateMatchAsUpsert(table, id, patch) ==
  [m \in DOMAIN table |->
     IF table[m].id = id
     THEN [col \in DOMAIN table[m] |->
             IF col \in DOMAIN patch THEN patch[col]
             ELSE IF col = "round" THEN 0
             ELSE IF col = "venue" THEN ""
             ELSE table[m][col]]
     ELSE table[m]]

\* supabase.from("matches").update(patch).eq("id", id), accepted
UpdateMatch(table, id, patch) ==
  [m \in DOMAIN table |->
     IF table[m].id = id
     THEN [col \in DOMAIN table[m] |->
             IF col \in DOMAIN patch THEN patch[col] ELSE table[m][col]]
     ELSE table[m]]

\* a variant that looks the swapped key up first
PossibleForSwappedFirst(homeId, awayId, cands) ==
  LET F(swapped) == IF swapped = <<>> THEN IndexGet(cands, homeId, awayId) ELSE swapped
  IN Eval(F, IndexGet(cands, awayId, homeId))

\* the candidates a scraped row is looked up against: the direct key, and
\* the swapped key when the direct key has none
PossibleFor(homeId, awayId, cands) ==
  LET F(direct) == IF direct = <<>> THEN IndexGet(cands, awayId, homeId) ELSE direct
  IN Eval(F, IndexGet(cands, homeId, awayId))

\* !homeId
Unresolved(id) == id \in {null, 0}

SeqIds(seq) == {seq[i].id : i \in DOMAIN seq}

\* the body of the loop over the scraped rows, up to the update statement:
\* what main() decides for a row
RowOutcome(cands, updIds, row, clock) ==
  LET Chosen(possible) ==
        LET G(target) ==
              IF target.id = 0 \/ target.id \in updIds
              THEN [kind |-> "seen", row |-> row, id |-> target.id]
              ELSE [kind |-> "write", row |-> row, id |-> target.id,
                    possible |-> SeqIds(possible), patch |-> PatchOf[row, clock]]
        IN IF possible = <<>> THEN [kind |-> "nocandidate", row |-> row]
           ELSE Eval(G, pickBestCandidate(possible, clock))
      F(ids) ==
        IF Unresolved(ids[1]) \/ Unresolved(ids[2])
        THEN [kind |-> "unmapped", row |-> row]
        ELSE Eval(Chosen, PossibleFor(ids[1], ids[2], cands))
  IN Eval(F, <<TeamIdOf[row.home], TeamIdOf[row.away]>>)

\* the stored live state of a fixture that no run has touched
NotStarted == CHOOSE l \in InitialLiveStates : l.status = "NS"
LiveNow == CHOOSE l \in InitialLiveStates : l.status = "LIVE"

\* the tables a behaviour can start with: the three fixtures of the pair in
\* the window in any stored state, the fixture of the other pair NS or LIVE
InitialTables ==
  { [id \in MatchIds |->
       LET f == CHOOSE x \in Range(Fixtures) : x.id = id
       IN MatchRow(f, IF id \in 1..3 THEN live[id]
                      ELSE IF id = 6 /\ other THEN LiveNow
                      ELSE NotStarted, 0)] :
    live \in [1..3 -> InitialLiveStates], other \in BOOLEAN }

Init ==
  /\ matches \in InitialTables
  /\ now \in Clocks
  /\ pc = "idle"
  /\ LIVE_ONLY = FALSE
  /\ inputsRead = 0
  /\ candidates = <<>>
  /\ rowsRead = 0
  /\ seen = {}
  /\ updatedIds = {}
  /\ updatedHere = 0
  /\ totalUpdates = 0
  /\ written = {}
  /\ last = NoLast
  /\ SyncNotRunning
  /\ site = <<>>
  /\ runsDone = 0
  /\ afterFirst = <<>>
  /\ arg = <<>>
  /\ ret = NoRet

harness == <<site, runsDone, afterFirst, arg, ret, standings, sync>>

\* the process starts: the environment is read and the loop is entered, unless
\* LIVE_ONLY is set and no stored match is LIVE
StartRun ==
  /\ pc \in {"idle", "exit0", "exit1"}
  /\ \E liveOnly \in BOOLEAN :
       /\ LIVE_ONLY' = liveOnly
       /\ IF liveOnly /\ ~(\E id \in DOMAIN matches : matches[id].status = "LIVE")
          THEN pc' = "exit0"
          ELSE pc' = "inputs"
  /\ inputsRead' = 0
  /\ candidates' = <<>>
  /\ rowsRead' = 0
  /\ seen' = {}
  /\ updatedIds' = {}
  /\ updatedHere' = 0
  /\ totalUpdates' = 0
  /\ written' = {}
  /\ last' = NoLast
  /\ UNCHANGED <<matches, now>>
  /\ UNCHANGED harness

\* the loop over the inputs goes on with the next item
NextInputAfter(what) ==
  /\ inputsRead' = inputsRead + 1
  /\ pc' = "inputs"
  /\ candidates' = <<>>
  /\ rowsRead' = 0
  /\ seen' = {}
  /\ last' = what
  /\ UNCHANGED <<matches, now, LIVE_ONLY, updatedIds, updatedHere, totalUpdates, written>>
  /\ UNCHANGED harness

NextInput == NextInputAfter(NoLast)

\* an error that escapes main(): the process exits with status 1
MainThrows ==
  /\ pc' = "exit1"
  /\ UNCHANGED <<matches, now, LIVE_ONLY, inputsRead, candidates, rowsRead, seen,
                 updatedIds, updatedHere, totalUpdates, written>>
  /\ UNCHANGED harness

\* the loop has an item to take
AtInput == pc = "inputs" /\ inputsRead < MaxInputs

CandidatesOf(item) == getCandidates(ItemSeason[item], matches, now, LIVE_ONLY)

\* new URL(raw) accepts only a text that starts with a scheme: a letter,
\* then letters, digits, "+", "-" or ".", then ":"
UrlParses(raw) ==
  \E i \in 2..Len(raw) :
    /\ raw[i] = ":"
    /\ raw[1] \in Range(LowerLetters) \cup Range(UpperLetters)
    /\ \A k \in 1..(i - 1) :
         raw[k] \in Range(LowerLetters) \cup Range(UpperLetters) \cup Range(Digits)
                    \cup {"+", "-", "."}

\* plain tokens of FLASH_URLS that are not absolute URLs
BadTokens ==
  { [slug |-> NoSlug, url |-> <<"t","o","p","-","1","4">>],
    [slug |-> NoSlug, url |-> <<"/","r","u","g","b","y",":","1","4">>] }

\* normalizeFlashUrl throws on an input that new URL() rejects: the error
\* escapes main() before the slug of the input is looked at
UrlThrows ==
  /\ AtInput
  /\ \E tok \in BadTokens : ~UrlParses(urlsFromEnv(<<tok>>)[1].url)
  /\ last' = [kind |-> "badurl"]
  /\ MainThrows

\* an input whose competition slug is unknown is skipped
SkipUnknownUrl ==
  /\ AtInput
  /\ \E item \in InputItems : ItemSlug[item] = NoSlug
  /\ NextInputAfter([kind |-> "unknownurl"])

\* getLatestSeasonIdByCompSlug throws: the error escapes main() and the
\* process exits with status 1
SeasonLookupThrows ==
  /\ AtInput
  /\ \E item \in InputItems : ItemSlug[item] # NoSlug /\ ItemSeason[item] = 0
  /\ pc' = "exit1"
  /\ last' = NoLast
  /\ UNCHANGED <<matches, now, LIVE_ONLY, inputsRead, candidates, rowsRead, seen,
                 updatedIds, updatedHere, totalUpdates, written>>
  /\ UNCHANGED harness

\* no candidate in the season: the page is not opened
NoCandidates ==
  /\ AtInput
  /\ \E item \in InputItems :
       ItemSlug[item] # NoSlug /\ ItemSeason[item] # 0 /\ CandidatesOf(item) = <<>>
  /\ NextInput

\* a variant in which the error of gotoWithRetry escapes main()
NavigationFailsThrowing ==
  /\ AtInput
  /\ \E item \in InputItems :
       ItemSlug[item] # NoSlug /\ ItemSeason[item] # 0 /\ CandidatesOf(item) # <<>>
  /\ \E outcomes \in [1..Tries -> BOOLEAN] : ~gotoWithRetry(outcomes, Tries).ok
  /\ last' = [kind |-> "navfailed"]
  /\ MainThrows

\* every navigation attempt fails: the competition is skipped
NavigationFails ==
  /\ AtInput
  /\ \E item \in InputItems :
       ItemSlug[item] # NoSlug /\ ItemSeason[item] # 0 /\ CandidatesOf(item) # <<>>
  /\ \E outcomes \in [1..Tries -> BOOLEAN] : ~gotoWithRetry(outcomes, Tries).ok
  /\ NextInputAfter([kind |-> "navfailed"])

\* the page loads: the loop over its rows starts
ScrapePage ==
  /\ AtInput
  /\ \E item \in InputItems :
       /\ ItemSlug[item] # NoSlug /\ ItemSeason[item] # 0 /\ CandidatesOf(item) # <<>>
       /\ candidates' = CandidatesOf(item)
  /\ \E outcomes \in [1..Tries -> BOOLEAN] : gotoWithRetry(outcomes, Tries).ok
  /\ pc' = "rows"
  /\ rowsRead' = 0
  /\ seen' = {}
  /\ updatedHere' = 0
  /\ updatedIds' = {}
  /\ last' = NoLast
  /\ UNCHANGED <<matches, now, LIVE_ONLY, inputsRead, totalUpdates, written>>
  /\ UNCHANGED harness

\* the page shows a row that dedupeScrapedRows has seen: it is dropped
DropDuplicateRow ==
  /\ pc = "rows" /\ rowsRead < MaxRows
  /\ \E row \in ScrapedRowSet :
       /\ DedupeKeyOf[row] \in seen
       /\ last' = [kind |-> "duplicate", row |-> row]
  /\ rowsRead' = rowsRead + 1
  /\ UNCHANGED <<matches, now, pc, LIVE_ONLY, inputsRead, candidates, seen, updatedIds,
                 updatedHere, totalUpdates, written>>
  /\ UNCHANGED harness

\* a variant of the row loop that counts an update the database rejected
ProcessRowCountingRejected ==
  /\ pc = "rows" /\ rowsRead < MaxRows
  /\ \E row \in ScrapedRowSet :
       /\ DedupeKeyOf[row] \notin seen
       /\ seen' = seen \cup {DedupeKeyOf[row]}
       /\ \E o \in {RowOutcome(candidates, updatedIds, row, now)} :
             IF o.kind # "write"
             THEN /\ last' = o
                  /\ UNCHANGED <<matches, updatedIds, updatedHere, totalUpdates, written>>
             ELSE \E accepted \in BOOLEAN :
                    /\ updatedIds' = updatedIds \cup {o.id}
                    /\ written' = IF accepted THEN written \cup {o.id} ELSE written
                    /\ last' = [kind |-> IF accepted THEN "updated" ELSE "rejected",
                                row |-> row, id |-> o.id, possible |-> o.possible,
                                before |-> matches[o.id]]
                    /\ matches' = IF accepted THEN UpdateMatch(matches, o.id, o.patch)
                                  ELSE matches
                    /\ updatedHere' = updatedHere + 1
                    /\ totalUpdates' = totalUpdates + 1
  /\ rowsRead' = rowsRead + 1
  /\ UNCHANGED <<now, pc, LIVE_ONLY, inputsRead, candidates>>
  /\ UNCHANGED harness

\* one iteration of the loop over the scraped rows
ProcessRow ==
  /\ pc = "rows" /\ rowsRead < MaxRows
  /\ \E row \in ScrapedRowSet :
       /\ DedupeKeyOf[row] \notin seen
       /\ seen' = seen \cup {DedupeKeyOf[row]}
       /\ \E o \in {RowOutcome(candidates, updatedIds, row, now)} :
             IF o.kind # "write"
             THEN /\ last' = o
                  /\ UNCHANGED <<matches, updatedIds, updatedHere, totalUpdates, written>>
             ELSE \E accepted \in BOOLEAN :
                    /\ updatedIds' = updatedIds \cup {o.id}
                    /\ written' = IF accepted THEN written \cup {o.id} ELSE written
                    /\ last' = [kind |-> IF accepted THEN "updated" ELSE "rejected",
                                row |-> row, id |-> o.id, possible |-> o.possible,
                                before |-> matches[o.id]]
                    /\ IF accepted
                       THEN /\ matches' = UpdateMatch(matches, o.id, o.patch)
                            /\ updatedHere' = updatedHere + 1
                            /\ totalUpdates' = totalUpdates + 1
                       ELSE UNCHANGED <<matches, updatedHere, totalUpdates>>
  /\ rowsRead' = rowsRead + 1
  /\ UNCHANGED <<now, pc, LIVE_ONLY, inputsRead, candidates>>
  /\ UNCHANGED harness

\* the rows of the page are done: the count is logged and the loop goes on
FinishInput ==
  /\ pc = "rows"
  /\ NextInput

\* the inputs are done: the browser is closed and the process exits with 0
FinishRun ==
  /\ pc = "inputs"
  /\ pc' = "exit0"
  /\ last' = NoLast
  /\ UNCHANGED <<matches, now, LIVE_ONLY, inputsRead, candidates, rowsRead, seen,
                 updatedIds, updatedHere, totalUpdates, written>>
  /\ UNCHANGED harness

Next ==
  \/ StartRun
  \/ UrlThrows
  \/ SkipUnknownUrl
  \/ SeasonLookupThrows
  \/ NoCandidates
  \/ NavigationFails
  \/ ScrapePage
  \/ DropDuplicateRow
  \/ ProcessRow
  \/ FinishInput
  \/ FinishRun

Spec == Init /\ [][Next]_vars

(***************************************************************************)
(* Runs of detectStatusAndMinute on the status texts over a small          *)
(* alphabet.                                                               *)
(***************************************************************************)
\* longest status text tried
MaxLen == 4

StatusChars == {"5", "2", "'", "A"}
\* status texts made of words the pages show, up to MaxChunks of them
MaxChunks == 3
StatusChunks ==
  { <<"F","T">>, <<"A","f","t","e","r">>, <<"P","o","s","t","p","o","n","e","d">>,
    <<"H","T">>, <<"5","2","'">>, <<" ">> }

RECURSIVE Concat(_)
Concat(seqs) == IF seqs = <<>> THEN <<>> ELSE Head(seqs) \o Concat(Tail(seqs))

ChunkTexts == {Concat(w) : w \in UNION {[1..n -> StatusChunks] : n \in 1..MaxChunks}}

StatusTexts == UNION {[1..n -> StatusChars] : n \in 0..MaxLen} \cup ChunkTexts

\* a table no run has touched
UntouchedTable ==
  [id \in MatchIds |-> MatchRow(CHOOSE x \in Range(Fixtures) : x.id = id, NotStarted, 0)]

InitParse ==
  /\ arg \in StatusTexts
  /\ ret = NoRet
  /\ matches = UntouchedTable
  /\ now = 2 * Today + 1
  /\ pc = "idle"
  /\ LIVE_ONLY = FALSE
  /\ inputsRead = 0
  /\ candidates = <<>>
  /\ rowsRead = 0
  /\ seen = {}
  /\ updatedIds = {}
  /\ updatedHere = 0
  /\ totalUpdates = 0
  /\ written = {}
  /\ last = NoLast
  /\ SyncNotRunning
  /\ site = <<>>
  /\ runsDone = 0
  /\ afterFirst = <<>>

\* main() calls detectStatusAndMinute(row.statusOrTime)
CallDetect ==
  /\ ret = NoRet
  /\ ret' = detectStatusAndMinute(arg)
  /\ UNCHANGED <<matches, now, pc, LIVE_ONLY, inputsRead, candidates, rowsRead, seen,
                 updatedIds, updatedHere, totalUpdates, written, last, site, runsDone,
                 afterFirst, arg>>
  /\ UNCHANGED <<standings, sync>>

NextParse == CallDetect

SpecParse == InitParse /\ [][NextParse]_vars

(***************************************************************************)
(* Two runs of main() in immediate succession on a page that does not      *)
(* change, each run taken as one step: one input of the competition, every *)
(* update accepted.                                                        *)
(***************************************************************************)
\* the loop of main() over the rows of a page: the table it leaves
RECURSIVE RowLoop(_, _, _, _, _)
RowLoop(table, cands, updIds, rows, clock) ==
  IF rows = <<>> THEN table
  ELSE LET F(o) ==
             IF o.kind = "write"
             THEN RowLoop(UpdateMatch(table, o.id, o.patch), cands, updIds \cup {o.id},
                          Tail(rows), clock)
             ELSE RowLoop(table, cands, updIds, Tail(rows), clock)
       IN Eval(F, RowOutcome(cands, updIds, Head(rows), clock))

\* the season main() finds for the input fr-top14
TopSeason == getLatestSeasonIdByCompSlug(fr_top14)

\* main() with the one input fr-top14 and the page it scrapes
RunOnPage(table, page, clock, liveOnly) ==
  IF liveOnly /\ ~(\E id \in DOMAIN table : table[id].status = "LIVE") THEN table
  ELSE LET F(cands) ==
             IF cands = <<>> THEN table
             ELSE RowLoop(table, cands, {}, dedupeScrapedRows(page), clock)
       IN Eval(F, getCandidates(TopSeason, table, clock, liveOnly))

InitTwice ==
  /\ matches \in InitialTables
  /\ now \in Clocks
  /\ LIVE_ONLY \in BOOLEAN
  /\ site \in Pages
  /\ runsDone = 0
  /\ afterFirst = <<>>
  /\ pc = "idle"
  /\ inputsRead = 0
  /\ candidates = <<>>
  /\ rowsRead = 0
  /\ seen = {}
  /\ updatedIds = {}
  /\ updatedHere = 0
  /\ totalUpdates = 0
  /\ written = {}
  /\ last = NoLast
  /\ SyncNotRunning
  /\ arg = <<>>
  /\ ret = NoRet

FirstRun ==
  /\ runsDone = 0
  /\ matches' = RunOnPage(matches, site, now, LIVE_ONLY)
  /\ afterFirst' = matches'
  /\ runsDone' = 1
  /\ UNCHANGED <<now, pc, LIVE_ONLY, inputsRead, candidates, rowsRead, seen, updatedIds,
                 updatedHere, totalUpdates, written, last, site, arg, ret>>
  /\ UNCHANGED <<standings, sync>>

SecondRun ==
  /\ runsDone = 1
  /\ matches' = RunOnPage(matches, site, now, LIVE_ONLY)
  /\ runsDone' = 2
  /\ UNCHANGED <<now, pc, LIVE_ONLY, inputsRead, candidates, rowsRead, seen, updatedIds,
                 updatedHere, totalUpdates, written, last, site, afterFirst, arg, ret>>
  /\ UNCHANGED <<standings, sync>>

NextTwice == FirstRun \/ SecondRun

SpecTwice == InitTwice /\ [][NextTwice]_vars

(***************************************************************************)
(* Properties.                                                             *)
(***************************************************************************)
\* the columns the reconciler reports a match with
LiveOf(m) ==
  [status |-> m.status, minute |-> m.minute,
   home_score |-> m.home_score, away_score |-> m.away_score]

\* the step is an iteration of the row loop that sent an update
WriteStep ==
  pc = "rows" /\ rowsRead' = rowsRead + 1 /\ last'.kind \in {"updated", "rejected"}

\* the step is an iteration of the row loop whose update the database accepted
AcceptedStep == pc = "rows" /\ rowsRead' = rowsRead + 1 /\ last'.kind = "updated"

\* C1: two runs in immediate succession on an unchanged page leave every
\* match with the status, minute and scores the first run left it with.
C1_SecondRunChangesNothing ==
  runsDone = 2 => \A id \in MatchIds : LiveOf(matches[id]) = LiveOf(afterFirst[id])

\* C2: a match whose status is FT is never the target of an update and none
\* of its fields changes, in the same run or in a later one.
C2_FullTimeIsFinal ==
  [][\A id \in MatchIds :
       matches[id].status = "FT" =>
         /\ matches'[id] = matches[id]
         /\ ~(WriteStep /\ last'.id = id)]_vars

\* a row of a pair was looked up while a match of that pair, set to FT by the
\* reconciler, was stored in the season and the window: no candidate was found
C2_Witness ==
  /\ last.kind = "nocandidate"
  /\ \E id \in MatchIds :
       /\ matches[id].status = "FT"
       /\ matches[id].updated_at # 0
       /\ {matches[id].home_team_id, matches[id].away_team_id}
            = {TeamIdOf[last.row.home], TeamIdOf[last.row.away]}

C4_OneUpdatePerMatchPerRun == [][WriteStep => last'.id \notin written]_vars

\* what detectStatusAndMinute returns for the status texts of the pages
DetectedOf == [row \in ScrapedRowSet |-> detectStatusAndMinute(row.statusOrTime)]

\* C5: a match has a non-null minute only if its status is LIVE, and
\* detectStatusAndMinute returns a non-null minute only with status LIVE.
C5_MinuteOnlyWhenLive ==
  /\ \A id \in MatchIds : matches[id].minute # null => matches[id].status = "LIVE"
  /\ \A row \in ScrapedRowSet : DetectedOf[row].minute # null => DetectedOf[row].status = "LIVE"

\* a patch wrote a minute
C5_Witness ==
  /\ last.kind = "updated"
  /\ matches[last.id].minute # null
  /\ matches[last.id].minute = DetectedOf[last.row].minute

\* C6: while a match stays LIVE a score that is set never decreases from one
\* patch to the next, and the scores of an FT match never change.
C6_ScoresNeverDecrease ==
  [][\A id \in MatchIds :
       /\ (matches[id].status = "LIVE" /\ matches'[id].status = "LIVE") =>
            /\ matches[id].home_score # null => matches'[id].home_score >= matches[id].home_score
            /\ matches[id].away_score # null => matches'[id].away_score >= matches[id].away_score
       /\ matches[id].status = "FT" =>
            /\ matches'[id].home_score = matches[id].home_score
            /\ matches'[id].away_score = matches[id].away_score]_vars

\* the text is a number of 1 to 3 digits followed by an apostrophe
IsMinuteMarker(t) ==
  /\ Len(t) \in 2..4
  /\ t[Len(t)] = "'"
  /\ \A i \in 1..(Len(t) - 1) : IsDigit(t[i])

\* C7: for a status text that is a 1 to 3 digit number NN followed by an
\* apostrophe, detectStatusAndMinute returns status LIVE with minute NN.
C7_MinuteMarkerIsLive ==
  (ret # NoRet /\ IsMinuteMarker(arg)) =>
    ret = [status |-> "LIVE", minute |-> parseInt(SubSeq(arg, 1, Len(arg) - 1))]

Postponed == <<"P","o","s","t","p","o","n","e","d">>

\* C8: a row with status text "Postponed" written onto a match that is LIVE
\* with a score sets status NS and home_score, away_score and minute null.
C8_PostponedRevertsLiveMatch ==
  [][(/\ AcceptedStep
      /\ last'.row.statusOrTime = Postponed
      /\ matches[last'.id].status = "LIVE"
      /\ matches[last'.id].home_score # null) =>
       LiveOf(matches'[last'.id])
         = [status |-> "NS", minute |-> null, home_score |-> null, away_score |-> null]]_vars

\* a Postponed row with score texts was written onto a LIVE match with scores
C8_Witness ==
  /\ last.kind = "updated"
  /\ last.row.statusOrTime = Postponed
  /\ last.row.hs = <<"1","0">>
  /\ last.before.status = "LIVE"
  /\ last.before.home_score = 10
  /\ matches[last.id].status = "NS"

\* the name is a spelling the alias table maps
IsAlias(name) == \E i \in DOMAIN AliasTable : norm(AliasTable[i][1]) = norm(name)

\* the team the alias table maps the name to (the last entry for it)
AliasId(name) ==
  AliasTable[CHOOSE i \in DOMAIN AliasTable :
               /\ norm(AliasTable[i][1]) = norm(name)
               /\ \A k \in (i + 1)..Len(AliasTable) : norm(AliasTable[k][1]) # norm(name)][2]

\* the rows of scenario A: alias spellings, "24", "10", "FT"
AliasRows ==
  {r \in ScrapedRowSet :
     /\ IsAlias(r.home) /\ IsAlias(r.away)
     /\ r.hs = <<"2","4">> /\ r.as = <<"1","0">> /\ r.statusOrTime = <<"F","T">>}

AliasPair == [r \in AliasRows |-> {AliasId(r.home), AliasId(r.away)}]

\* the matches of the two teams stored in the season of the competition
Between(pair) ==
  {id \in MatchIds :
     /\ matches[id].season_id = TopSeason
     /\ {matches[id].home_team_id, matches[id].away_team_id} = pair}

\* those of them inside the window of getCandidates that are not FT
OpenBetween(pair) ==
  {id \in Between(pair) :
     /\ matches[id].match_date >= (now \div 2) - 3
     /\ matches[id].match_date <= (now \div 2) + 7
     /\ matches[id].status # "FT"}

\* the step reads the alias row r from the page while id is the one stored
\* match of its teams in the window, NS, no row of this page has been written
\* to a match of the two teams, and the database does not reject the update
ScenarioA(r, id) ==
  /\ pc = "rows"
  /\ rowsRead' = rowsRead + 1
  /\ last'.row = r
  /\ last'.kind \notin {"duplicate", "rejected"}
  /\ OpenBetween(AliasPair[r]) = {id}
  /\ matches[id].status = "NS"
  /\ updatedIds \cap Between(AliasPair[r]) = {}

ScenarioAResult(id) ==
  /\ LiveOf(matches'[id])
       = [status |-> "FT", minute |-> null, home_score |-> 24, away_score |-> 10]
  /\ \A other \in MatchIds \ {id} : matches'[other] = matches[other]

C10_ClosestDateIsUpdated ==
  [][AcceptedStep =>
       LET possible == PossibleFor(TeamIdOf[last'.row.home], TeamIdOf[last'.row.away],
                                   candidates)
       IN (\E i, j \in DOMAIN possible : possible[i].match_date # possible[j].match_date) =>
            /\ \E i \in DOMAIN possible : possible[i].id = last'.id
            /\ \A i \in DOMAIN possible :
                 /\ Abs(2 * matches[last'.id].match_date - now)
                      <= Abs(2 * possible[i].match_date - now)
                 /\ possible[i].id # last'.id =>
                      matches'[possible[i].id] = matches[possible[i].id]]_vars

\* a row with two candidates of different dates was written, the other
\* candidate being strictly farther from the moment of the run and first in
\* the order of the database
C10_Witness ==
  /\ last.kind = "updated"
  /\ \E other \in last.possible :
       /\ other < last.id
       /\ matches[other].match_date # matches[last.id].match_date
       /\ Abs(2 * matches[other].match_date - now)
            > Abs(2 * matches[last.id].match_date - now)

(***************************************************************************)
(* Computed standings of the league page (LeagueClient.tsx): runs of       *)
(* fetchStandingsComputed on the matches of a season.                      *)
(***************************************************************************)
\* the reconciler is not running
ReconcilerIdle ==
  /\ matches = UntouchedTable
  /\ now = 2 * Today + 1
  /\ pc = "idle"
  /\ LIVE_ONLY = FALSE
  /\ inputsRead = 0
  /\ candidates = <<>>
  /\ rowsRead = 0
  /\ seen = {}
  /\ updatedIds = {}
  /\ updatedHere = 0
  /\ totalUpdates = 0
  /\ written = {}
  /\ last = NoLast
  /\ SyncNotRunning
  /\ site = <<>>
  /\ runsDone = 0
  /\ afterFirst = <<>>

\* matches of the season a standings run reads
MaxMatches == 3

TeamA == [id |-> 1, name |-> <<"A">>]
TeamB == [id |-> 2, name |-> <<"B">>]
TeamC == [id |-> 3, name |-> <<"C">>]

SeasonMatch(h, a, st, hs, as) ==
  [home_team |-> h, away_team |-> a, status |-> st, home_score |-> hs, away_score |-> as]

\* the matches a season can hold
SeasonMatchSet ==
  { SeasonMatch(TeamA, TeamB, "FT", 20, 10),
    SeasonMatch(TeamB, TeamC, "FT", 15, 15),
    SeasonMatch(TeamA, TeamC, "FT", 30, 5),
    SeasonMatch(TeamC, TeamB, "FT", 5, 20),
    SeasonMatch(TeamC, TeamA, "FT", 10, 5),
    SeasonMatch(TeamB, TeamA, "FT", null, null),
    SeasonMatch(TeamB, TeamA, "NS", null, null),
    SeasonMatch(TeamC, TeamB, "LIVE", 15, 15) }

Seasons == UNION {[1..n -> SeasonMatchSet] : n \in 0..MaxMatches}

\* Map.prototype.set on a map kept as the sequence of its entries in
\* insertion order
MapSet(map, key, value) ==
  IF \E i \in DOMAIN map : map[i][1] = key
  THEN [i \in DOMAIN map |-> IF map[i][1] = key THEN <<key, value>> ELSE map[i]]
  ELSE Append(map, <<key, value>>)

MapHas(map, key) == \E i \in DOMAIN map : map[i][1] = key

\* fetchTeamsForSeason: team id -> name over all the matches of the season
RECURSIVE fetchTeamsForSeason(_)
fetchTeamsForSeason(data) ==
  IF data = <<>> THEN <<>>
  ELSE LET F(map) ==
             LET r == data[Len(data)]
                 withHome == IF r.home_team.id # 0
                             THEN MapSet(map, r.home_team.id, r.home_team.name) ELSE map
             IN IF r.away_team.id # 0
                THEN MapSet(withHome, r.away_team.id, r.away_team.name) ELSE withHome
       IN Eval(F, fetchTeamsForSeason(SubSeq(data, 1, Len(data) - 1)))

\* a variant that awards three points for a win
pointsForResultThree(home, away) ==
  IF home > away THEN [homePts |-> 3, awayPts |-> 0, homeW |-> 1, awayW |-> 0, d |-> 0]
  ELSE IF away > home THEN [homePts |-> 0, awayPts |-> 3, homeW |-> 0, awayW |-> 1, d |-> 0]
  ELSE [homePts |-> 2, awayPts |-> 2, homeW |-> 0, awayW |-> 0, d |-> 1]

pointsForResult(home, away) ==
  IF home > away THEN [homePts |-> 4, awayPts |-> 0, homeW |-> 1, awayW |-> 0, d |-> 0]
  ELSE IF away > home THEN [homePts |-> 0, awayPts |-> 4, homeW |-> 0, awayW |-> 1, d |-> 0]
  ELSE [homePts |-> 2, awayPts |-> 2, homeW |-> 0, awayW |-> 0, d |-> 1]

ZeroRow(id, name) ==
  [teamId |-> id, team |-> name, pj |-> 0, w |-> 0, d |-> 0, l |-> 0, pf |-> 0, pa |-> 0,
   pts |-> 0]

\* a variant of the loop body that records no defeat
CountMatchWithoutLosses(table, r) ==
  LET res == pointsForResult(r.home_score, r.away_score)
      home0 == IF MapHas(table, r.home_team.id) THEN MapGet(table, r.home_team.id)
               ELSE ZeroRow(r.home_team.id, r.home_team.name)
      home == [home0 EXCEPT !.pj = @ + 1, !.pf = @ + r.home_score, !.pa = @ + r.away_score,
                            !.pts = @ + res.homePts,
                            !.d = @ + res.d,
                            !.w = @ + (IF res.d = 1 THEN 0 ELSE res.homeW)]
      table1 == MapSet(table, r.home_team.id, home)
      away0 == IF MapHas(table1, r.away_team.id) THEN MapGet(table1, r.away_team.id)
               ELSE ZeroRow(r.away_team.id, r.away_team.name)
      away == [away0 EXCEPT !.pj = @ + 1, !.pf = @ + r.away_score, !.pa = @ + r.home_score,
                            !.pts = @ + res.awayPts,
                            !.d = @ + res.d,
                            !.w = @ + (IF res.d = 1 THEN 0 ELSE res.awayW)]
  IN MapSet(table1, r.away_team.id, away)

\* the body of the loop of fetchStandingsComputed for one counted row
CountMatch(table, r) ==
  LET res == pointsForResult(r.home_score, r.away_score)
      home0 == IF MapHas(table, r.home_team.id) THEN MapGet(table, r.home_team.id)
               ELSE ZeroRow(r.home_team.id, r.home_team.name)
      home == [home0 EXCEPT !.pj = @ + 1, !.pf = @ + r.home_score, !.pa = @ + r.away_score,
                            !.pts = @ + res.homePts,
                            !.d = @ + res.d,
                            !.w = @ + (IF res.d = 1 THEN 0 ELSE res.homeW),
                            !.l = @ + (IF res.d = 1 THEN 0 ELSE res.awayW)]
      table1 == MapSet(table, r.home_team.id, home)
      away0 == IF MapHas(table1, r.away_team.id) THEN MapGet(table1, r.away_team.id)
               ELSE ZeroRow(r.away_team.id, r.away_team.name)
      away == [away0 EXCEPT !.pj = @ + 1, !.pf = @ + r.away_score, !.pa = @ + r.home_score,
                            !.pts = @ + res.awayPts,
                            !.d = @ + res.d,
                            !.w = @ + (IF res.d = 1 THEN 0 ELSE res.awayW),
                            !.l = @ + (IF res.d = 1 THEN 0 ELSE res.homeW)]
  IN MapSet(table1, r.away_team.id, away)

\* the row is counted: both teams joined and both scores numbers
Counted(r) ==
  /\ r.home_team.id # 0 /\ r.away_team.id # 0
  /\ r.home_score # null /\ r.away_score # null

\* the loop of fetchStandingsComputed over the FT rows: <<table, ftCount>>
RECURSIVE StandingsLoop(_, _)
StandingsLoop(table, data) ==
  IF data = <<>> THEN <<table, 0>>
  ELSE LET F(acc) ==
             IF Counted(data[Len(data)])
             THEN <<CountMatch(acc[1], data[Len(data)]), acc[2] + 1>>
             ELSE acc
       IN Eval(F, StandingsLoop(table, SubSeq(data, 1, Len(data) - 1)))

\* String.prototype.localeCompare on one-letter names
localeCompare(a, b) == IndexIn(a[1], UpperLetters) - IndexIn(b[1], UpperLetters)

\* the comparator of the sort of fetchStandingsComputed
StandingsCompare(a, b) ==
  IF b.pts # a.pts THEN b.pts - a.pts
  ELSE IF (b.pf - b.pa) # (a.pf - a.pa) THEN (b.pf - b.pa) - (a.pf - a.pa)
  ELSE IF b.pf # a.pf THEN b.pf - a.pf
  ELSE localeCompare(a.team, b.team)

\* Array.prototype.sort with that comparator (stable)
RECURSIVE SortStandings(_)
SortStandings(rows) ==
  LET F(v) ==
        IF v = <<>> THEN <<>>
        ELSE LET G(rest) ==
                   LET x == v[Len(v)]
                       n == Cardinality({i \in DOMAIN rest : StandingsCompare(rest[i], x) <= 0})
                   IN SubSeq(rest, 1, n) \o <<x>> \o SubSeq(rest, n + 1, Len(rest))
             IN Eval(G, SortStandings(SubSeq(v, 1, Len(v) - 1)))
  IN Eval(F, rows)

NoRules == [topChampions |-> 0, topEurope |-> 0, bottomRelegation |-> 0]

STANDINGS_RULES(compSlug) ==
  IF compSlug = en_premiership
  THEN [topChampions |-> 4, topEurope |-> 0, bottomRelegation |-> 1]
  ELSE NoRules

\* the badge of the row at a position of a table of total rows
BadgeOf(rules, position, total) ==
  IF rules.bottomRelegation # 0 /\ position > total - rules.bottomRelegation THEN "relegation"
  ELSE IF rules.topChampions # 0 /\ position <= rules.topChampions THEN "champions"
  ELSE IF rules.topEurope # 0 /\ position <= rules.topEurope THEN "europe"
  ELSE "none"

fetchStandingsComputed(season, compSlug) ==
  LET data == SelectSeq(season, LAMBDA r : r.status = "FT")
      teamMap == fetchTeamsForSeason(season)
      zero == [i \in DOMAIN teamMap |-> <<teamMap[i][1], ZeroRow(teamMap[i][1], teamMap[i][2])>>]
      F(acc) ==
        LET G(rows) ==
              [rows |-> [i \in DOMAIN rows |->
                           rows[i] @@ [position |-> i,
                                       badge |-> BadgeOf(STANDINGS_RULES(compSlug), i, Len(rows))]],
               ftCount |-> acc[2]]
        IN Eval(G, SortStandings([i \in DOMAIN acc[1] |-> acc[1][i][2]]))
  IN Eval(F, StandingsLoop(zero, data))

InitStandings ==
  /\ ReconcilerIdle
  /\ arg \in [season : Seasons, compSlug : {fr_top14, en_premiership}]
  /\ ret = NoRet

\* the league page loads the standings of the season
LoadStandings ==
  /\ ret = NoRet
  /\ ret' = fetchStandingsComputed(arg.season, arg.compSlug)
  /\ UNCHANGED <<matches, now, pc, LIVE_ONLY, inputsRead, candidates, rowsRead, seen,
                 updatedIds, updatedHere, totalUpdates, written, last, site, runsDone,
                 afterFirst, arg>>
  /\ UNCHANGED <<standings, sync>>

NextStandings == LoadStandings

SpecStandings == InitStandings /\ [][NextStandings]_vars

\* the standing row of a team in a computed table, without position and badge
RowOfTeam(result, id) ==
  LET i == CHOOSE k \in DOMAIN result.rows : result.rows[k].teamId = id
  IN [f \in {"pj", "w", "d", "l", "pts", "position"} |-> result.rows[i][f]]

\* the season of the example: A 20-10 B, B 15-15 C, A 30-5 C, all FT
IsExampleSeason(season) ==
  /\ Len(season) = 3
  /\ Range(season) = { SeasonMatch(TeamA, TeamB, "FT", 20, 10),
                       SeasonMatch(TeamB, TeamC, "FT", 15, 15),
                       SeasonMatch(TeamA, TeamC, "FT", 30, 5) }

\* C11: a decisive result gives 4/0 points and a draw 2/2; for the season
\* A 20-10 B, B 15-15 C, A 30-5 C the table is A (played 2, won 2, points 8),
\* B (played 2, drawn 1, lost 1, points 2), C (played 2, drawn 1, lost 1,
\* points 2), B above C by point difference; and a table is ordered by
\* points, then point difference, then points for, then name.
C11_ComputedStandings ==
  (ret # NoRet) =>
    /\ IsExampleSeason(arg.season) =>
         /\ RowOfTeam(ret, 1) = [pj |-> 2, w |-> 2, d |-> 0, l |-> 0, pts |-> 8, position |-> 1]
         /\ RowOfTeam(ret, 2) = [pj |-> 2, w |-> 0, d |-> 1, l |-> 1, pts |-> 2, position |-> 2]
         /\ RowOfTeam(ret, 3) = [pj |-> 2, w |-> 0, d |-> 1, l |-> 1, pts |-> 2, position |-> 3]
    /\ \A i, j \in DOMAIN ret.rows :
         i < j =>
           LET a == ret.rows[i]
               b == ret.rows[j]
           IN \/ a.pts > b.pts
              \/ a.pts = b.pts /\ a.pf - a.pa > b.pf - b.pa
              \/ a.pts = b.pts /\ a.pf - a.pa = b.pf - b.pa /\ a.pf > b.pf
              \/ /\ a.pts = b.pts /\ a.pf - a.pa = b.pf - b.pa /\ a.pf = b.pf
                 /\ IndexIn(a.team[1], UpperLetters) < IndexIn(b.team[1], UpperLetters)
    /\ \A i \in DOMAIN ret.rows : ret.rows[i].pts = 4 * ret.rows[i].w + 2 * ret.rows[i].d

\* the standings of the example season were computed
C11_Witness ==
  /\ ret # NoRet
  /\ IsExampleSeason(arg.season)
  /\ ret.ftCount = 3
  /\ ret.rows[2].teamId = 2

(***************************************************************************)
(* Failure handling of the reconciler.                                     *)
(***************************************************************************)
\* the step is an iteration of the row loop whose update the database rejected
RejectedStep == pc = "rows" /\ rowsRead' = rowsRead + 1 /\ last'.kind = "rejected"

\* C12: when the database rejects the update of a match the run does not
\* abort: no match changes (the rejected one keeps its stored values), the
\* update counters stay as they were, and the run stays in the row loop of
\* the same input, from where the next row and the next input are taken.
C12_RejectedUpdateDoesNotAbort ==
  /\ [][RejectedStep =>
          /\ matches' = matches
          /\ matches'[last'.id] = last'.before
          /\ updatedHere' = updatedHere /\ totalUpdates' = totalUpdates
          /\ pc' = "rows" /\ inputsRead' = inputsRead
          /\ candidates' = candidates]_vars
  /\ [](last.kind = "rejected" =>
          /\ pc = "rows"
          /\ ENABLED FinishInput
          /\ rowsRead < MaxRows => ENABLED (ProcessRow \/ DropDuplicateRow))

\* after a rejected update a later row of the run was written
C12_Witness ==
  /\ last.kind = "updated"
  /\ updatedIds \ written # {}
  /\ totalUpdates = Cardinality(written)

\* C13: when the navigation to the URL of a competition fails on every
\* retry, the competition is skipped: no match is written and no update is
\* counted, the loop moves to the next input, which it can take, and the run
\* can end with exit status 0.
C13_NavigationFailureSkipsCompetition ==
  /\ [][last'.kind = "navfailed" =>
          /\ matches' = matches
          /\ updatedIds' = updatedIds /\ written' = written
          /\ updatedHere' = updatedHere /\ totalUpdates' = totalUpdates
          /\ pc = "inputs" /\ pc' = "inputs" /\ inputsRead' = inputsRead + 1
          /\ \A outcomes \in [1..Tries -> {FALSE}] :
               gotoWithRetry(outcomes, Tries) = [ok |-> FALSE, attempts |-> Tries]]_vars
  /\ [](last.kind = "navfailed" =>
          /\ pc = "inputs"
          /\ ENABLED FinishRun
          /\ inputsRead < MaxInputs => ENABLED ScrapePage)

\* the navigation to the first input failed and the second input is awaited
C13_Witness ==
  /\ last.kind = "navfailed"
  /\ inputsRead = 1 /\ pc = "inputs"
  /\ written = {}

(***************************************************************************)
(* The standings sync (scrape-standings): main() replaces the standings    *)
(* rows of the season of each URL by the rows the page shows.              *)
(***************************************************************************)
\* URLs a run of the standings sync reads, and rows of a standings page
MaxUrls == 2
MaxStandingRows == 2

\* resolveTeamIdByName on the rows of the teams table: the id of the first
\* team whose normalised name is the normalised name given, or null
resolveTeamIdByName(teamName, data) ==
  LET F(n) ==
        IF n = <<>> THEN null
        ELSE IF \E i \in DOMAIN data : norm(data[i].name) = n
        THEN data[CHOOSE i \in DOMAIN data :
                    /\ norm(data[i].name) = n
                    /\ \A k \in 1..(i - 1) : norm(data[k].name) # n].id
        ELSE null
  IN Eval(F, norm(teamName))

\* the rows a standings page can show: team name and points
StandingsRowSet ==
  { [teamName |-> <<"B","a","y","o","n","n","e">>, points |-> 12],
    [teamName |-> <<"T","O","U","L","O","N"," ">>, points |-> 8],
    [teamName |-> <<"A","v","i","r","o","n"," ","B","a","y","o","n","n","a","i","s">>,
     points |-> 12] }

StandingsPages == UNION {[1..n -> StandingsRowSet] : n \in 0..MaxStandingRows}

StandingsTeamId ==
  [name \in {r.teamName : r \in StandingsRowSet} |-> resolveTeamIdByName(name, TeamsTable)]

\* the seasons getLatestSeasonIdByCompSlug can return to the sync
SyncSeasonIds == {SeasonsTable[i].id : i \in DOMAIN SeasonsTable}

\* what the standings table can hold for a season before a run
StoredBefore(seasonId) ==
  { {}, {[season_id |-> seasonId, team_id |-> 51, points |-> 10]} }

InitSync ==
  /\ matches = UntouchedTable
  /\ now = 2 * Today + 1
  /\ pc = "idle"
  /\ LIVE_ONLY = FALSE
  /\ inputsRead = 0
  /\ candidates = <<>>
  /\ rowsRead = 0
  /\ seen = {}
  /\ updatedIds = {}
  /\ updatedHere = 0
  /\ totalUpdates = 0
  /\ written = {}
  /\ last = NoLast
  /\ site = <<>>
  /\ runsDone = 0
  /\ afterFirst = <<>>
  /\ arg = <<>>
  /\ ret = NoRet
  /\ standings \in {f \in [SyncSeasonIds -> UNION {StoredBefore(s) : s \in SyncSeasonIds}] :
                      \A s \in SyncSeasonIds : f[s] \in StoredBefore(s)}
  /\ sync = [pc |-> "urls", urlsRead |-> 0, seasonId |-> 0, rows |-> <<>>, inserts |-> <<>>,
             before |-> standings]

\* the variables the standings sync leaves alone
reconciler == <<matches, now, pc, LIVE_ONLY, inputsRead, candidates, rowsRead, seen,
                updatedIds, updatedHere, totalUpdates, written, last, site, runsDone,
                afterFirst, arg, ret>>

\* the error escapes main(): the process exits with status 1
SyncThrows == sync' = [sync EXCEPT !.pc = "exit1"]

\* continue: the loop over the URLs takes the next one
SyncContinue ==
  sync' = [sync EXCEPT !.pc = "urls", !.urlsRead = @ + 1, !.rows = <<>>, !.inserts = <<>>]

\* one URL up to the scraped rows: the URL is skipped when its competition is
\* unknown or its page shows no rows; the season lookup or the navigation
\* can throw
SyncTakeUrl ==
  /\ sync.pc = "urls" /\ sync.urlsRead < MaxUrls
  /\ \/ SyncContinue
     \/ SyncThrows
     \/ \E seasonId \in SyncSeasonIds, rows \in StandingsPages :
          IF rows = <<>> THEN SyncContinue
          ELSE sync' = [sync EXCEPT !.pc = "delete", !.seasonId = seasonId, !.rows = rows,
                                    !.inserts = <<>>]
  /\ UNCHANGED standings
  /\ UNCHANGED reconciler

\* the rows of the season are deleted, or the delete is rejected
SyncDelete ==
  /\ sync.pc = "delete"
  /\ \/ /\ standings' = [standings EXCEPT ![sync.seasonId] = {}]
        /\ sync' = [sync EXCEPT !.pc = "resolve"]
     \/ /\ SyncThrows
        /\ UNCHANGED standings
  /\ UNCHANGED reconciler

\* one iteration of the loop over the scraped rows: the team is looked up
\* (the query can fail); a row whose team is not found is left out
SyncResolveRow ==
  /\ sync.pc = "resolve" /\ sync.rows # <<>>
  /\ \/ \E teamId \in {StandingsTeamId[Head(sync.rows).teamName]} :
          sync' = [sync EXCEPT
                     !.rows = Tail(@),
                     !.inserts = IF teamId = null \/ teamId = 0 THEN @
                                 ELSE Append(@, [season_id |-> sync.seasonId,
                                                 team_id |-> teamId,
                                                 points |-> Head(sync.rows).points])]
     \/ SyncThrows
  /\ UNCHANGED standings
  /\ UNCHANGED reconciler

\* the insert: skipped when no row is left to insert, accepted, or rejected
SyncInsert ==
  /\ sync.pc = "resolve" /\ sync.rows = <<>>
  /\ IF sync.inserts = <<>>
     THEN SyncContinue /\ UNCHANGED standings
     ELSE \/ /\ standings' = [standings EXCEPT
                                ![sync.seasonId] = @ \cup Range(sync.inserts)]
             /\ SyncContinue
          \/ /\ SyncThrows
             /\ UNCHANGED standings
  /\ UNCHANGED reconciler

\* the URLs are done: the browser is closed and the process exits with 0
SyncFinish ==
  /\ sync.pc = "urls"
  /\ sync' = [sync EXCEPT !.pc = "exit0"]
  /\ UNCHANGED standings
  /\ UNCHANGED reconciler

NextSync ==
  \/ SyncTakeUrl
  \/ SyncDelete
  \/ SyncResolveRow
  \/ SyncInsert
  \/ SyncFinish

SpecSync == InitSync /\ [][NextSync]_vars

\* C14: when a run of the standings sync has ended, whether it completed,
\* failed or abandoned a season partway, no season that had standings rows
\* before the run has none.
C14_FailedSyncKeepsStandings ==
  sync.pc \in {"exit0", "exit1"} =>
    \A s \in SyncSeasonIds : sync.before[s] # {} => standings[s] # {}

\* C15: an input of FLASH_URLS with no explicit slug and no slug found from
\* its URL writes nothing, the loop goes on to the next input, and the run
\* can complete with exit status 0, also when every input was such a one.
C15_UnknownUrlIsSkipped ==
  /\ [][last'.kind \in {"unknownurl", "badurl"} =>
          /\ matches' = matches
          /\ updatedHere' = updatedHere /\ totalUpdates' = totalUpdates
          /\ pc = "inputs" /\ pc' = "inputs" /\ inputsRead' = inputsRead + 1]_vars
  /\ [](last.kind \in {"unknownurl", "badurl"} => pc = "inputs" /\ ENABLED FinishRun)

(***************************************************************************)
(* Runs of norm on a name, and again on its result.                        *)
(***************************************************************************)
\* the characters of the names: a capital, a letter with an accent, a space,
\* a no-break space, the typographic apostrophe and the trade mark sign
NormChars == {"A", "E_acute", " ", "U00A0", "U2019", "U2122"}

NormInputs == UNION {[1..n -> NormChars] : n \in 0..MaxLen}

InitNorm ==
  /\ ReconcilerIdle
  /\ arg \in NormInputs
  /\ ret = NoRet

CallNorm ==
  /\ ret = NoRet
  /\ ret' = [once |-> norm(arg)]
  /\ UNCHANGED <<arg, standings, sync>>
  /\ UNCHANGED running

CallNormAgain ==
  /\ DOMAIN ret = {"once"}
  /\ ret' = [once |-> ret.once, twice |-> norm(ret.once)]
  /\ UNCHANGED <<arg, standings, sync>>
  /\ UNCHANGED running

NextNorm == CallNorm \/ CallNormAgain

SpecNorm == InitNorm /\ [][NextNorm]_vars

\* C16: norm is idempotent: for every string x, norm(norm(x)) = norm(x).
C16_NormIsIdempotent == DOMAIN ret = {"once", "twice"} => ret.twice = ret.once

\* the words of a status text: its maximal runs of letters, in capitals
StatusWords(raw) ==
  LET F(s) ==
        LET Letter(i) == s[i] \in Range(UpperLetters)
        IN { SubSeq(s, i, j) : <<i, j>> \in
               { p \in (DOMAIN s) \X (DOMAIN s) :
                   /\ p[1] <= p[2]
                   /\ \A k \in p[1]..p[2] : Letter(k)
                   /\ p[1] = 1 \/ ~Letter(p[1] - 1)
                   /\ p[2] = Len(s) \/ ~Letter(p[2] + 1) } }
  IN Eval(F, toUpperCase(raw))

\* C17: detectStatusAndMinute classifies by the first rule that applies, in
\* the order: a cancellation, postponement or abandonment word gives NS;
\* else a full-time or extra-time word gives FT; else a half-time or live
\* word or a minute marker NN' gives LIVE; else NS.  So a text with both a
\* cancellation word and a full-time word is NS, and a text is FT only if
\* one of its words is a full-time word.
C17_FirstMatchingRule ==
  (ret # NoRet /\ "status" \in DOMAIN ret) =>
    LET words == StatusWords(arg)
        Starts(w, p) == Len(w) >= Len(p) /\ SubSeq(w, 1, Len(p)) = p
        cancelled == \E w \in words :
                       \/ Starts(w, <<"P","O","S","T","P">>)
                       \/ Starts(w, <<"C","A","N","C">>)
                       \/ Starts(w, <<"A","B","A","N","D">>)
                       \/ w = <<"A","B","D">>
        fullTime == \E w \in words : w \in {<<"F","T">>, <<"F","I","N","A","L">>, <<"A","E","T">>}
        live == \E w \in words : w \in {<<"H","T">>, <<"L","I","V","E">>}
        marker == \E i \in 1..(Len(arg) - 1) : IsDigit(arg[i]) /\ arg[i + 1] = "'"
    IN ret.status = IF cancelled THEN "NS"
                    ELSE IF fullTime THEN "FT"
                    ELSE IF live \/ marker THEN "LIVE"
                    ELSE "NS"

(***************************************************************************)
(* Runs of resolveTeamId on a raw name and the teams table of a database.  *)
(***************************************************************************)
\* rows of the teams table of a database
MaxTeams == 2

TeamRowSet ==
  { [id |-> 51, name |-> <<"B","a","y","o","n","n","e">>],
    [id |-> 45, name |-> <<"S","t","a","d","e"," ","F","r","a","n","c_cedilla","a","i","s">>],
    [id |-> 0, name |-> <<"S","t","a","d","e">>],
    [id |-> 7, name |-> <<"R","a","c","i","n","g"," ","9","2">>],
    [id |-> 46, name |-> <<"T","o","u","l","o","n">>] }

TeamTables == UNION {[1..n -> TeamRowSet] : n \in 0..MaxTeams}

\* names a page can show
RawNameSet ==
  { <<"S","t","a","d","e">>,
    <<"S","t","a","d"," ","F","r","a","n">>,
    <<"A","v","i","r","o","n"," ","B","a","y","o","n","n","a","i","s">>,
    <<"B","i","a","r","r","i","t","z">>,
    <<"R","A","C","I","N","G"," "," ","M","e","t","r","o">>,
    <<"T","o","u","l","o","n"," ","R","C">>,
    <<" ">> }

InitResolve ==
  /\ ReconcilerIdle
  /\ arg \in [rawName : RawNameSet, data : TeamTables]
  /\ ret = NoRet

\* main() builds the map of the database and resolves the name
CallResolve ==
  /\ ret = NoRet
  /\ \E m \in {getTeamsMap(arg.data)} :
       ret' = [id |-> resolveTeamId(arg.rawName, m.teamsMap, m.teamNamesNorm),
               teamsMap |-> m.teamsMap, teamNamesNorm |-> m.teamNamesNorm,
               n |-> norm(arg.rawName)]
  /\ UNCHANGED <<arg, standings, sync>>
  /\ UNCHANGED running

NextResolve == CallResolve

SpecResolve == InitResolve /\ [][NextResolve]_vars

\* the normalised name given is a key of the map: it was set by a row of the
\* teams table or by an alias
IsKey(map, key) == \E i \in DOMAIN map : map[i][1] = key

\* C18: whenever norm(raw) is a key of the team/alias map, resolveTeamId
\* returns the id the map holds for that key, whatever that id is.
C18_ExactMatchIsAuthoritative ==
  ("id" \in DOMAIN ret /\ IsKey(ret.teamsMap, ret.n)) => ret.id = MapGet(ret.teamsMap, ret.n)

UnresolvedNames ==
  {name \in RawNames : resolveTeamId(name, teamsMap, teamNamesNorm) \in {null, 0}}

\* C20: an iteration of the row loop on a row whose home name or away name
\* resolves to no team id writes no match: the table, the set of updated ids
\* and the update counters stay as they were.
C20_UnresolvedRowWritesNothing ==
  [][(/\ pc = "rows" /\ rowsRead' = rowsRead + 1
      /\ last'.row.home \in UnresolvedNames \/ last'.row.away \in UnresolvedNames) =>
       /\ matches' = matches
       /\ last'.kind \notin {"updated", "rejected"}
       /\ updatedIds' = updatedIds /\ written' = written
       /\ updatedHere' = updatedHere /\ totalUpdates' = totalUpdates]_vars

\* a row with a name that resolves to no team id was read while its other
\* team has candidate matches
C20_Witness ==
  /\ last.kind = "unmapped"
  /\ last.row.home \notin UnresolvedNames /\ last.row.away \in UnresolvedNames
  /\ candidates # <<>>

(***************************************************************************)
(* The record of unmapped names of the row loop: the Map unmapped of the   *)
(* earlier script (part_001), which sync-flashscore.ts no longer has.      *)
(***************************************************************************)
\* the names of the rows of a page, and its deduplicated rows
UnmappedNameSet ==
  { <<"B","a","y","o","n","n","e">>, <<"B","i","a","r","r","i","t","z">>, <<"P","a","u">> }

UnmappedIdOf == [name \in UnmappedNameSet |-> resolveTeamId(name, teamsMap, teamNamesNorm)]

UnmappedPages ==
  { p \in UNION {[1..n -> [home : UnmappedNameSet, away : UnmappedNameSet]] : n \in 0..MaxRows} :
      \A i, j \in DOMAIN p : i # j => p[i] # p[j] }

\* the loop of part_001 over the rows, as far as the Map unmapped goes
RECURSIVE unmappedLoop(_)
unmappedLoop(rows) ==
  IF rows = <<>> THEN <<>>
  ELSE LET F(unmapped) ==
             LET row == rows[Len(rows)]
                 Count(map, name) == IF MapHas(map, name) THEN MapGet(map, name) ELSE 0
                 afterHome == IF Unresolved(UnmappedIdOf[row.home])
                              THEN MapSet(unmapped, row.home, Count(unmapped, row.home) + 1)
                              ELSE unmapped
             IN IF Unresolved(UnmappedIdOf[row.away])
                THEN MapSet(afterHome, row.away, Count(afterHome, row.away) + 1)
                ELSE afterHome
       IN Eval(F, unmappedLoop(SubSeq(rows, 1, Len(rows) - 1)))

\* what the row loop of a script has recorded of the unmapped names when the
\* rows of the page are done: sync-flashscore.ts keeps no record
UnmappedRecorded(script, rows) ==
  IF script = "part_001" THEN unmappedLoop(rows) ELSE <<>>

InitUnmapped ==
  /\ ReconcilerIdle
  /\ arg \in [script : {"sync-flashscore.ts", "part_001"}, rows : UnmappedPages]
  /\ ret = NoRet

\* the row loop runs over the rows of the page
RunRowLoop ==
  /\ ret = NoRet
  /\ ret' = [unmapped |-> UnmappedRecorded(arg.script, arg.rows)]
  /\ UNCHANGED <<arg, standings, sync>>
  /\ UNCHANGED running

NextUnmapped == RunRowLoop

SpecUnmapped == InitUnmapped /\ [][NextUnmapped]_vars

\* C21: after the rows of a competition are processed, for every raw name
\* that failed to resolve, the count recorded for it equals the number of
\* deduplicated rows in which it is an unresolved home or away name.
C21_UnmappedNamesAreCounted ==
  "unmapped" \in DOMAIN ret =>
    \A name \in UnmappedNameSet :
      Unresolved(UnmappedIdOf[name]) =>
        (IF MapHas(ret.unmapped, name) THEN MapGet(ret.unmapped, name) ELSE 0)
          = Cardinality({i \in DOMAIN arg.rows :
                           arg.rows[i].home = name \/ arg.rows[i].away = name})

\* the step loads the candidates of the season of an input and builds the index
IndexBuilt == pc = "inputs" /\ pc' = "rows"

\* how often a match is in the index under the key of its own team ids, and
\* how often under any key
TimesUnderOwnKey(cands, m) ==
  Cardinality({i \in DOMAIN IndexGet(cands, m.home_team_id, m.away_team_id) :
                 IndexGet(cands, m.home_team_id, m.away_team_id)[i].id = m.id})
TimesInIndex(cands, m) == Cardinality({i \in DOMAIN cands : cands[i].id = m.id})

InWindow(m, clock) == m.match_date >= (clock \div 2) - 3 /\ m.match_date <= (clock \div 2) + 7

\* C22: the index built for a season holds exactly the matches of the season
\* with match_date in [today - 3, today + 7] and a status other than FT,
\* each once, under the key of its own team ids.
C22_IndexHoldsTheWindow ==
  [][IndexBuilt =>
       \A id \in MatchIds :
         IF matches[id].season_id = TopSeason /\ InWindow(matches[id], now)
            /\ matches[id].status # "FT"
         THEN TimesInIndex(candidates', matches[id]) = 1
              /\ TimesUnderOwnKey(candidates', matches[id]) = 1
         ELSE TimesInIndex(candidates', matches[id]) = 0]_vars

\* C22 with the mode of the run: as above when LIVE_ONLY is unset; when it is
\* set the index holds, of those matches, exactly the ones that are LIVE.
C22_IndexHoldsTheWindowOfTheMode ==
  [][IndexBuilt =>
       \A id \in MatchIds :
         IF matches[id].season_id = TopSeason /\ InWindow(matches[id], now)
            /\ matches[id].status # "FT" /\ (LIVE_ONLY => matches[id].status = "LIVE")
         THEN TimesInIndex(candidates', matches[id]) = 1
              /\ TimesUnderOwnKey(candidates', matches[id]) = 1
         ELSE TimesInIndex(candidates', matches[id]) = 0]_vars

\* an index was built in a LIVE_ONLY run while a match of the season in the
\* window is NS: the index holds the LIVE matches and not that one
C22_Witness ==
  /\ pc = "rows" /\ rowsRead = 0 /\ LIVE_ONLY
  /\ candidates # <<>>
  /\ \E id \in MatchIds :
       /\ matches[id].season_id = TopSeason /\ InWindow(matches[id], now)
       /\ matches[id].status = "NS"
       /\ TimesInIndex(candidates, matches[id]) = 0

\* C23: the swapped key is used only when the direct key has no candidate:
\* when the index holds a match with the orientation of the scraped row, the
\* target of the row is a match with that orientation; and a row for which
\* neither key has a candidate writes nothing.
C23_SwappedKeyOnlyAsFallback ==
  [][(pc = "rows" /\ rowsRead' = rowsRead + 1 /\ last'.kind # "duplicate"
      /\ last'.row.home \notin UnresolvedNames /\ last'.row.away \notin UnresolvedNames) =>
       LET h == TeamIdOf[last'.row.home]
           a == TeamIdOf[last'.row.away]
       IN /\ (WriteStep /\ IndexGet(candidates, h, a) # <<>>) =>
               /\ matches[last'.id].home_team_id = h
               /\ matches[last'.id].away_team_id = a
          /\ (IndexGet(candidates, h, a) = <<>> /\ IndexGet(candidates, a, h) = <<>>) =>
               /\ last'.kind = "nocandidate"
               /\ matches' = matches /\ updatedIds' = updatedIds
               /\ totalUpdates' = totalUpdates]_vars

\* a row was written to a match of its own orientation while the index also
\* held a match of the reversed orientation
C23_Witness ==
  /\ last.kind = "updated"
  /\ matches[last.id].home_team_id = TeamIdOf[last.row.home]
  /\ IndexGet(candidates, TeamIdOf[last.row.away], TeamIdOf[last.row.home]) # <<>>

\* the score text is a run of decimal digits once trimmed: its value, else null
ScoreValue(text) ==
  LET F(t) == IF t # <<>> /\ \A i \in DOMAIN t : t[i] \in Range(Digits) THEN parseInt(t) ELSE null
  IN Eval(F, trim(text))

ScoreValueOf == [row \in ScrapedRowSet |-> [hs |-> ScoreValue(row.hs), as |-> ScoreValue(row.as)]]

\* C24: for a patch whose status is LIVE or FT, home_score (away_score) is in
\* the patch exactly when the scraped home (away) score text is an integer,
\* with that value; when it is not, the stored value of the column stays.
C24_ScoreWrittenIffParsed ==
  [][(AcceptedStep /\ DetectedOf[last'.row].status \in {"LIVE", "FT"}) =>
       LET row == last'.row
           id == last'.id
           patch == PatchOf[row, now]
       IN /\ ("home_score" \in DOMAIN patch) <=> (ScoreValueOf[row].hs # null)
          /\ ("away_score" \in DOMAIN patch) <=> (ScoreValueOf[row].as # null)
          /\ matches'[id].home_score = IF ScoreValueOf[row].hs # null
                                       THEN ScoreValueOf[row].hs ELSE matches[id].home_score
          /\ matches'[id].away_score = IF ScoreValueOf[row].as # null
                                       THEN ScoreValueOf[row].as ELSE matches[id].away_score]_vars

\* a half-time row with no home score was written onto a match that had one:
\* the stored home score stayed and the away score was replaced
C24_Witness ==
  /\ last.kind = "updated"
  /\ last.row.hs = <<"-">> /\ last.row.statusOrTime = <<"H","T">>
  /\ last.before.home_score = 10
  /\ matches[last.id].home_score = 10 /\ matches[last.id].away_score = 14

\* the columns a patch of main() can name
PatchColumns == {"status", "minute", "home_score", "away_score", "updated_at"}

\* C25: the reconciler never inserts or deletes a match row: every change of
\* the table is an accepted update of one existing row chosen by its id, it
\* changes only status, minute, home_score, away_score and updated_at, and
\* every other column of that row and every other row stay as they were.
C25_WritesAreTargetedUpdates ==
  [][/\ DOMAIN matches' = DOMAIN matches
     /\ WriteStep => last'.id \in DOMAIN matches /\ matches[last'.id].id = last'.id
     /\ (matches' # matches) =>
          /\ AcceptedStep
          /\ \A m \in DOMAIN matches :
               /\ DOMAIN matches'[m] = DOMAIN matches[m]
               /\ m # last'.id => matches'[m] = matches[m]
               /\ \A col \in DOMAIN matches[m] \ PatchColumns :
                    matches'[m][col] = matches[m][col]]_vars

\* an accepted update changed status and scores of match 1 next to another
\* stored match of the same two teams, and its round and venue are as stored
C25_Witness ==
  /\ last.kind = "updated" /\ last.id = 1
  /\ matches[1].status # last.before.status
  /\ matches[1].home_score # last.before.home_score
  /\ matches[1].round = 1 /\ matches[1].venue = "Stade Jean Dauger"
  /\ matches[2] # matches[1]

(***************************************************************************)
(* The season each script targets, for the seasons of one competition in   *)
(* the order the database returns them.                                    *)
(***************************************************************************)
MaxSeasons == 3

SeasonNameSet ==
  { <<"2","0","2","6">>,
    <<"2","0","2","5","/","2","6">>,
    <<"2","0","2","4","/","2","5">>,
    <<"A","p","e","r","t","u","r","a"," ","2","0","2","6">>,
    <<"C","l","a","u","s","u","r","a"," ","2","0","2","5">> }

\* the id of the season row of a name
SeasonIdOf(name) ==
  IF name = <<"2","0","2","6">> THEN 3
  ELSE IF name = <<"2","0","2","5","/","2","6">> THEN 2
  ELSE IF name = <<"2","0","2","4","/","2","5">> THEN 1
  ELSE IF name[1] = "A" THEN 5 ELSE 4

\* the rows select("id,name").eq("competition_id", id) can return: distinct
\* seasons in any order
SeasonLists ==
  { [i \in DOMAIN names |-> [id |-> SeasonIdOf(names[i]), name |-> names[i]]] :
      names \in {s \in UNION {[1..n -> SeasonNameSet] : n \in 1..MaxSeasons} :
                   \A i, j \in DOMAIN s : i # j => s[i] # s[j]} }

SeasonKeyOf == [name \in SeasonNameSet |-> seasonSortKey(name)]

\* seasons.slice().sort((a, b) => seasonSortKey(b.name) - seasonSortKey(a.name))[0]
\* of the reconciler; 0 stands for the exception on an empty list
BestSeasonByKey(seasons) ==
  IF seasons = <<>> THEN 0
  ELSE StableSort([i \in DOMAIN seasons |->
                     <<0 - SeasonKeyOf[seasons[i].name], seasons[i]>>])[1][2].id

\* the place of a character in the collation of names made of spaces,
\* slashes, digits and letters: space, then punctuation, then digits, then
\* letters whatever their case
CollationRank(c) ==
  IF c = " " THEN 1
  ELSE IF c = "/" THEN 2
  ELSE IF IsDigit(c) THEN 2 + IndexIn(c, Digits)
  ELSE 12 + IndexIn(LowerChar(c), LowerLetters)

\* a.localeCompare(b) on such names: the first place where the two differ
\* decides, and a name sorts after its proper prefixes
RECURSIVE localeCompareNames(_, _)
localeCompareNames(a, b) ==
  IF a = <<>> /\ b = <<>> THEN 0
  ELSE IF a = <<>> THEN 0 - 1
  ELSE IF b = <<>> THEN 1
  ELSE IF CollationRank(a[1]) # CollationRank(b[1])
  THEN (IF CollationRank(a[1]) < CollationRank(b[1]) THEN 0 - 1 ELSE 1)
  ELSE localeCompareNames(Tail(a), Tail(b))

\* the row a stable descending sort by name puts first
FirstByNameDescending(seasons) ==
  LET firsts == {i \in DOMAIN seasons :
                \A j \in DOMAIN seasons : localeCompareNames(seasons[j].name, seasons[i].name) <= 0}
  IN seasons[CHOOSE i \in firsts : \A j \in firsts : i <= j]

\* seasons.slice().sort((a, b) => (b.name || "").localeCompare(a.name || ""))[0]
\* of the standings sync
BestSeasonByName(seasons) ==
  IF seasons = <<>> THEN 0 ELSE FirstByNameDescending(seasons).id

\* getActiveSeasonId of the standings scraper:
\* order("name", { ascending: false }).limit(1)
getActiveSeasonId(seasons) ==
  IF seasons = <<>> THEN 0 ELSE FirstByNameDescending(seasons).id

InitSeasons ==
  /\ ReconcilerIdle
  /\ arg \in SeasonLists
  /\ ret = <<>>

\* the reconciler looks the latest season up
ReconcilerPicksSeason ==
  /\ "reconciler" \notin DOMAIN ret
  /\ ret' = ret @@ [reconciler |-> BestSeasonByKey(arg)]
  /\ UNCHANGED <<arg, standings, sync>>
  /\ UNCHANGED running

\* the standings sync looks the latest season up
SyncPicksSeason ==
  /\ "sync" \notin DOMAIN ret
  /\ ret' = ret @@ [sync |-> BestSeasonByName(arg)]
  /\ UNCHANGED <<arg, standings, sync>>
  /\ UNCHANGED running

\* the standings scraper looks the active season up
ScraperPicksSeason ==
  /\ "scraper" \notin DOMAIN ret
  /\ ret' = ret @@ [scraper |-> getActiveSeasonId(arg)]
  /\ UNCHANGED <<arg, standings, sync>>
  /\ UNCHANGED running

NextSeasons ==
  \/ ReconcilerPicksSeason
  \/ SyncPicksSeason
  \/ ScraperPicksSeason

SpecSeasons == InitSeasons /\ [][NextSeasons]_vars

\* the year a season name stands for: its later year when it is a range
ParsedYear(name) ==
  IF name[1] = "A" THEN 2026
  ELSE IF name[1] = "C" THEN 2025
  ELSE IF Len(name) = 4 THEN parseInt(name)
  ELSE parseInt(SubSeq(name, 1, 2) \o SubSeq(name, 6, 7))

NameOfSeason(seasons, id) == (CHOOSE i \in DOMAIN seasons : seasons[i].id = id)

IsLatestByYear(seasons, id) ==
  \A j \in DOMAIN seasons :
    ParsedYear(seasons[j].name) <= ParsedYear(seasons[NameOfSeason(seasons, id)].name)

\* C26: for any set of seasons of a competition, the reconciler and both
\* standings scripts target a season with the greatest parsed year (a range
\* counting as its later year), and they all target the same season.
C26_ScriptsTargetTheLatestSeason ==
  DOMAIN ret = {"reconciler", "sync", "scraper"} =>
    /\ IsLatestByYear(arg, ret.reconciler)
    /\ IsLatestByYear(arg, ret.sync)
    /\ IsLatestByYear(arg, ret.scraper)
    /\ ret.reconciler = ret.sync
    /\ ret.reconciler = ret.scraper

\* C27: key("2026") > key("2025/26") > key("2024/25") strictly, and with
\* seasons "2026" and "2025/26" both present the reconciler selects "2026"
\* in whatever order the database returns them.
C27_SeasonKeysAreStrict ==
  ("reconciler" \in DOMAIN ret /\ \E i \in DOMAIN arg : arg[i].id = 3) =>
    /\ SeasonKeyOf[<<"2","0","2","6">>] > SeasonKeyOf[<<"2","0","2","5","/","2","6">>]
    /\ SeasonKeyOf[<<"2","0","2","5","/","2","6">>] > SeasonKeyOf[<<"2","0","2","4","/","2","5">>]
    /\ ret.reconciler = 3

(***************************************************************************)
(* gotoWithRetry, one action per step of its loop.                         *)
(***************************************************************************)
\* what a page.goto call can throw
GotoErrors == {"timeout", "net::ERR_NAME_NOT_RESOLVED", "net::ERR_CONNECTION_REFUSED"}

\* a variant of the loop test that allows one more attempt
MoreTriesOneExtra(i, tries) == i <= tries + 1

\* the test of the for loop: i <= tries
MoreTries(i, tries) == i <= tries

\* page.waitForTimeout(1500 * i)
WaitMs(i) == 1500 * i

InitGoto ==
  /\ ReconcilerIdle
  /\ arg \in [tries : 1..Tries]
  /\ ret = [pc |-> "loop", i |-> 1, lastErr |-> "", attempts |-> <<>>, waits |-> <<>>]

\* page.goto resolves: the function returns
GotoSucceeds ==
  /\ ret.pc = "loop" /\ MoreTries(ret.i, arg.tries)
  /\ ret' = [ret EXCEPT !.pc = "returned", !.attempts = Append(@, "ok")]
  /\ UNCHANGED <<arg, standings, sync>>
  /\ UNCHANGED running

\* page.goto throws e: lastErr = e and the warning is logged
GotoFails ==
  /\ ret.pc = "loop" /\ MoreTries(ret.i, arg.tries)
  /\ \E e \in GotoErrors :
       ret' = [ret EXCEPT !.pc = "wait", !.lastErr = e, !.attempts = Append(@, e)]
  /\ UNCHANGED <<arg, standings, sync>>
  /\ UNCHANGED running

\* the wait after a failed attempt is over (an error of the wait is swallowed)
GotoWaits ==
  /\ ret.pc = "wait"
  /\ ret' = [ret EXCEPT !.pc = "loop", !.i = @ + 1, !.waits = Append(@, WaitMs(ret.i))]
  /\ UNCHANGED <<arg, standings, sync>>
  /\ UNCHANGED running

\* the loop is over: throw lastErr
GotoThrows ==
  /\ ret.pc = "loop" /\ ~MoreTries(ret.i, arg.tries)
  /\ ret' = [ret EXCEPT !.pc = "thrown"]
  /\ UNCHANGED <<arg, standings, sync>>
  /\ UNCHANGED running

NextGoto ==
  \/ GotoSucceeds
  \/ GotoFails
  \/ GotoWaits
  \/ GotoThrows

\* page.goto gives up after its timeout of 60 s and waitForTimeout ends, so
\* a step that is possible is taken
SpecGoto == InitGoto /\ [][NextGoto]_vars /\ WF_vars(NextGoto)

GotoDone == ret.pc \in {"returned", "thrown"}

\* C28: gotoWithRetry always terminates; it makes at most tries attempts,
\* returns after the first successful attempt without making another, after
\* tries consecutive failures throws the error of the last attempt, and the
\* wait after attempt i is 1500 * i, growing linearly with i.
C28_RetryIsBounded ==
  /\ <>GotoDone
  /\ [][GotoDone => ret' = ret]_vars
  /\ [](/\ Len(ret.attempts) <= arg.tries
        /\ \A k \in DOMAIN ret.attempts :
             ret.attempts[k] = "ok" => k = Len(ret.attempts) /\ ret.pc = "returned"
        /\ ret.pc = "returned" => ret.attempts[Len(ret.attempts)] = "ok"
        /\ ret.pc = "thrown" =>
             /\ Len(ret.attempts) = arg.tries
             /\ \A k \in DOMAIN ret.attempts : ret.attempts[k] \in GotoErrors
             /\ ret.lastErr = ret.attempts[arg.tries]
        /\ \A k \in DOMAIN ret.waits : ret.waits[k] = 1500 * k
        /\ \A k \in DOMAIN ret.waits : k > 1 => ret.waits[k] - ret.waits[k - 1] = ret.waits[1])

\* three attempts failed with different errors and the last one was thrown
C28_Witness ==
  /\ ret.pc = "thrown" /\ arg.tries = Tries
  /\ ret.attempts = <<"timeout", "net::ERR_NAME_NOT_RESOLVED", "net::ERR_CONNECTION_REFUSED">>
  /\ ret.lastErr = "net::ERR_CONNECTION_REFUSED"
  /\ ret.waits = <<1500, 3000, 4500>>

\* the sum of column f over the rows of a computed table
RECURSIVE SumColumn(_, _)
SumColumn(rows, f) ==
  IF rows = <<>> THEN 0
  ELSE rows[Len(rows)][f] + SumColumn(SubSeq(rows, 1, Len(rows) - 1), f)

\* C29: in computed standings every team has played = won + drawn + lost and
\* points = 4 * won + 2 * drawn, and over all teams the points scored sum to
\* the points conceded and the points sum to 4 times the counted matches.
C29_StandingsBalance ==
  (ret # NoRet) =>
    /\ \A i \in DOMAIN ret.rows :
         LET row == ret.rows[i]
         IN /\ row.pj = row.w + row.d + row.l
            /\ row.pts = 4 * row.w + 2 * row.d
    /\ SumColumn(ret.rows, "pf") = SumColumn(ret.rows, "pa")
    /\ SumColumn(ret.rows, "pts") = 4 * ret.ftCount
    /\ SumColumn(ret.rows, "pj") = 2 * ret.ftCount

\* three matches were counted, one of them a draw, over three teams
C29_Witness ==
  /\ ret # NoRet
  /\ ret.ftCount = 3 /\ Len(ret.rows) = 3
  /\ SumColumn(ret.rows, "d") = 2
  /\ SumColumn(ret.rows, "l") = 2
  /\ Len(arg.season) = 3

\* the score the page shows for the team with the given id in a scraped row
ScrapedScoreOf(row, teamId) ==
  IF TeamIdOf[row.home] = teamId THEN ScoreValueOf[row].hs ELSE ScoreValueOf[row].as

\* C30: scores are attributed to the right team: for every patch written,
\* also when the target was found through the swapped key, the value written
\* to home_score is the score scraped for the team stored as the target's
\* home_team_id and the value written to away_score is the score scraped for
\* the team stored as its away_team_id.
C30_ScoresGoToTheRightTeam ==
  [][(AcceptedStep /\ DetectedOf[last'.row].status # "NS") =>
       LET row == last'.row
           target == matches[last'.id]
           patch == PatchOf[row, now]
       IN /\ "home_score" \in DOMAIN patch =>
               matches'[last'.id].home_score = ScrapedScoreOf(row, target.home_team_id)
          /\ "away_score" \in DOMAIN patch =>
               matches'[last'.id].away_score = ScrapedScoreOf(row, target.away_team_id)]_vars

====
